---- MODULE Spec2Model ----
(***************************************************************************)
(* Purchase-order workflow of the restaurant back-office (OrdersService,   *)
(* latest revision, and ProductsService.updateProduct).                    *)
(*                                                                         *)
(* Conventions.  A JavaScript string is the sequence of its UTF-16 code    *)
(* units; T(<<"R","i","z">>) writes one readably.  A nullable string is    *)
(* either a string or NullText.  A nullable number is None or Some(n).     *)
(* Money is counted in cents (the DECIMAL(10,2) columns of the schema).    *)
(* A Date is a record [day, ms]: days since 1970-01-01 (UTC) and the       *)
(* millisecond of that day.  An outcome is the HTTP status the framework   *)
(* answers with: 200 for a returned value, 400 BadRequestException, 403    *)
(* ForbiddenException, 404 NotFoundException, 500 for any other rejection. *)
(***************************************************************************)
EXTENDS Integers, Sequences, FiniteSets, TLC

VARIABLES produits, purchaseOrders, purchaseOrderItems, nextOrderId,
          nextItemId, files, now, response, calls, unlinkedPaths,
          users, userResponse, asyncStorage, sessionStorage, window,
          sessionResponse

\* unlinkedPaths keeps the paths unlinkSync has removed a file at

\* The state of the order and product services
orderVars == <<produits, purchaseOrders, purchaseOrderItems, nextOrderId,
               nextItemId, files, now, response, calls, unlinkedPaths>>

\* The state outside the order and product services: the user table with the
\* last answer of the auth and user services, and the client's session stores
\* with the last result of the session store functions
outside == <<users, userResponse, asyncStorage, sessionStorage, window,
             sessionResponse>>

vars == <<produits, purchaseOrders, purchaseOrderItems, nextOrderId,
          nextItemId, files, now, response, calls, unlinkedPaths, outside>>

-----------------------------------------------------------------------------
(* Nullable values *)

None == <<>>

Some(v) == <<v>>

NullText == <<-1>>

\* value ?? fallback
OrElse(value, fallback) == IF value = NullText THEN fallback ELSE value

-----------------------------------------------------------------------------
(* Strings as UTF-16 code units *)

Chr ==
  ("0" :> 48) @@ ("1" :> 49) @@ ("2" :> 50) @@ ("3" :> 51) @@ ("4" :> 52) @@
  ("5" :> 53) @@ ("6" :> 54) @@ ("7" :> 55) @@ ("8" :> 56) @@ ("9" :> 57) @@
  ("-" :> 45) @@ ("/" :> 47) @@ (" " :> 32) @@ ("." :> 46) @@ ("*" :> 42) @@
  (":" :> 58) @@ ("T" :> 84) @@ ("Z" :> 90) @@ ("P" :> 80) @@ ("O" :> 79) @@
  ("M" :> 77) @@ ("R" :> 82) @@ ("K" :> 75) @@ ("G" :> 71) @@ ("L" :> 76) @@
  ("C" :> 67) @@ ("S" :> 83) @@ ("N" :> 78) @@ ("B" :> 66) @@ ("I" :> 73) @@
  ("D" :> 68) @@ ("A" :> 65) @@
  ("a" :> 97) @@ ("c" :> 99) @@ ("d" :> 100) @@ ("e" :> 101) @@
  ("f" :> 102) @@ ("g" :> 103) @@ ("i" :> 105) @@ ("k" :> 107) @@
  ("m" :> 109) @@ ("n" :> 110) @@ ("o" :> 111) @@ ("p" :> 112) @@
  ("r" :> 114) @@ ("s" :> 115) @@ ("t" :> 116) @@ ("u" :> 117) @@
  ("x" :> 120) @@ ("z" :> 122) @@ ("l" :> 108) @@
  ("TAB" :> 9) @@ ("e-acute" :> 233) @@
  ("U+7C73" :> 31859) @@ ("U+7BB1" :> 31665) @@ ("U+9762" :> 38754) @@
  ("xE7" :> 231) @@ ("xB1" :> 177) @@ ("xB3" :> 179)

T(names) == [i \in 1..Len(names) |-> Chr[names[i]]]

\* String(n) for an integer n >= 0
RECURSIVE DigitsOf(_)
DigitsOf(n) == IF n < 10 THEN <<48 + n>> ELSE DigitsOf(n \div 10) \o <<48 + (n % 10)>>

\* A variant that keeps the last targetLength characters only
padStartTruncating(s, targetLength) ==
  IF Len(s) >= targetLength THEN SubSeq(s, Len(s) - targetLength + 1, Len(s))
  ELSE [i \in 1..(targetLength - Len(s)) |-> 48] \o s

\* String.prototype.padStart(targetLength, '0')
RECURSIVE padStart(_, _)
padStart(s, targetLength) ==
  IF Len(s) >= targetLength THEN s ELSE padStart(<<48>> \o s, targetLength)

\* WhiteSpace and LineTerminator code units: what trim() and \s match
IsWhitespace(c) ==
  \/ c \in {9, 10, 11, 12, 13, 32, 160, 5760, 8232, 8233, 8239, 8287, 12288, 65279}
  \/ (c >= 8192 /\ c <= 8202)

RECURSIVE trimStart(_)
trimStart(s) ==
  IF s # <<>> /\ IsWhitespace(Head(s)) THEN trimStart(Tail(s)) ELSE s

RECURSIVE trimEnd(_)
trimEnd(s) ==
  IF s # <<>> /\ IsWhitespace(s[Len(s)]) THEN trimEnd(SubSeq(s, 1, Len(s) - 1)) ELSE s

trim(s) == trimEnd(trimStart(s))

\* value.replace(/\s+/g, ' ')
RECURSIVE collapseWhitespace(_)
collapseWhitespace(s) ==
  IF s = <<>> THEN <<>>
  ELSE IF IsWhitespace(Head(s)) THEN <<32>> \o collapseWhitespace(trimStart(s))
  ELSE <<Head(s)>> \o collapseWhitespace(Tail(s))

IsControlChar(c) == (c >= 0 /\ c <= 31) \/ c = 127

IsCjk(c) == c >= 13312 /\ c <= 40959

hasControlChars(value) == \E i \in 1..Len(value) : IsControlChar(value[i])

containsCjk(value) == \E i \in 1..Len(value) : IsCjk(value[i])

\* Buffer.from(value, 'latin1'): the low byte of every code unit
latin1Bytes(value) == [i \in 1..Len(value) |-> value[i] % 256]

\* Buffer.toString('utf16le'): little-endian pairs, an odd last byte is dropped
utf16le(bytes) ==
  [i \in 1..(Len(bytes) \div 2) |-> bytes[2 * i - 1] + 256 * bytes[2 * i]]

decodeUtf16Be(value) ==
  IF Len(value) < 2 THEN <<>>
  ELSE LET evenLength == Len(value) - (Len(value) % 2)
           swapped == [i \in 1..evenLength |->
                          IF i % 2 = 1 THEN value[i + 1] ELSE value[i - 1]]
       IN utf16le(swapped)

\* One decoded code point as UTF-16 code units
codeUnits(cp) ==
  IF cp > 65535
    THEN <<55296 + ((cp - 65536) \div 1024), 56320 + ((cp - 65536) % 1024)>>
    ELSE <<cp>>

\* Buffer.toString('utf8'): ill-formed subsequences decode to U+FFFD
RECURSIVE utf8From(_, _, _, _, _, _)
utf8From(bytes, i, needed, cp, lower, upper) ==
  IF i > Len(bytes) THEN (IF needed = 0 THEN <<>> ELSE <<65533>>)
  ELSE LET b == bytes[i] IN
    IF needed = 0 THEN
      IF b <= 127 THEN <<b>> \o utf8From(bytes, i + 1, 0, 0, 128, 191)
      ELSE IF b >= 194 /\ b <= 223 THEN utf8From(bytes, i + 1, 1, b % 32, 128, 191)
      ELSE IF b >= 224 /\ b <= 239 THEN
        utf8From(bytes, i + 1, 2, b % 16,
                 IF b = 224 THEN 160 ELSE 128, IF b = 237 THEN 159 ELSE 191)
      ELSE IF b >= 240 /\ b <= 244 THEN
        utf8From(bytes, i + 1, 3, b % 8,
                 IF b = 240 THEN 144 ELSE 128, IF b = 244 THEN 143 ELSE 191)
      ELSE <<65533>> \o utf8From(bytes, i + 1, 0, 0, 128, 191)
    ELSE IF b < lower \/ b > upper THEN <<65533>> \o utf8From(bytes, i, 0, 0, 128, 191)
    ELSE IF needed = 1 THEN
      codeUnits(cp * 64 + (b % 64)) \o utf8From(bytes, i + 1, 0, 0, 128, 191)
    ELSE utf8From(bytes, i + 1, needed - 1, cp * 64 + (b % 64), 128, 191)

utf8(bytes) == utf8From(bytes, 1, 0, 0, 128, 191)

recoverUtf8(value) ==
  LET safeValue == trim(OrElse(value, <<>>))
      binaryBuffer == latin1Bytes(safeValue)
      decodedUtf8 == trim(utf8(binaryBuffer))
      decodedUtf16Be == trim(decodeUtf16Be(binaryBuffer))
      decodedUtf16Le == trim(utf16le(binaryBuffer))
  IN IF safeValue = <<>> THEN <<>>
     ELSE IF containsCjk(safeValue) THEN safeValue
     ELSE IF ~ \E i \in 1..Len(safeValue) : safeValue[i] >= 128 /\ safeValue[i] <= 255
       THEN safeValue
     ELSE IF containsCjk(decodedUtf8) THEN decodedUtf8
     ELSE IF containsCjk(decodedUtf16Be) /\ ~ hasControlChars(decodedUtf16Be)
       THEN decodedUtf16Be
     ELSE IF containsCjk(decodedUtf16Le) /\ ~ hasControlChars(decodedUtf16Le)
       THEN decodedUtf16Le
     ELSE safeValue

resolveZhName(snapshotZh, productZh) ==
  LET snapshot == recoverUtf8(snapshotZh)
      current == recoverUtf8(productZh)
  IN IF containsCjk(snapshot) THEN snapshot
     ELSE IF containsCjk(current) THEN current
     ELSE IF snapshot # <<>> THEN snapshot
     ELSE IF current # <<>> THEN current
     ELSE T(<<"-">>)

sanitizeLabel(value) ==
  LET safeValue == recoverUtf8(value)
  IN IF safeValue = <<>> THEN T(<<"-">>)
     ELSE trim(collapseWhitespace(
            [i \in 1..Len(safeValue) |->
               IF IsControlChar(safeValue[i]) THEN 32 ELSE safeValue[i]]))

truncateText(value, maxLength) ==
  IF Len(value) <= maxLength THEN value
  ELSE SubSeq(value, 1, maxLength - 1) \o T(<<".", ".", ".">>)

\* [xX×], \d and the ASCII upper-casing the /i flag applies
IsTimesSign(c) == c \in {120, 88, 215}

IsDigit(c) == c >= 48 /\ c <= 57

toUpperAscii(s) ==
  [i \in 1..Len(s) |-> IF s[i] >= 97 /\ s[i] <= 122 THEN s[i] - 32 ELSE s[i]]

RECURSIVE dropDigits(_)
dropDigits(s) == IF s # <<>> /\ IsDigit(Head(s)) THEN dropDigits(Tail(s)) ELSE s

PackUnits ==
  { T(<<"K","G">>), T(<<"G">>), T(<<"L">>), T(<<"M","L">>), T(<<"P","C","S">>),
    T(<<"P","C">>), T(<<"C","T","N">>), T(<<"B","O","T">>),
    T(<<"B","I","D","O","N">>), T(<<"S","A","C">>) }

\* Whether s as a whole matches
\*   \s*[xX×]?\s*\*?\s*\d+(\.\d+)?\s*(KG|G|L|ML|PCS|PC|CTN|BOT|BIDON|SAC)\s*
matchesTrailingPack(s) ==
  LET s1 == trimStart(s)
      s2 == trimStart(IF s1 # <<>> /\ IsTimesSign(Head(s1)) THEN Tail(s1) ELSE s1)
      s3 == trimStart(IF s2 # <<>> /\ Head(s2) = 42 THEN Tail(s2) ELSE s2)
      s4 == dropDigits(s3)
      s5 == IF Len(s4) >= 2 /\ s4[1] = 46 /\ IsDigit(s4[2])
              THEN dropDigits(Tail(s4)) ELSE s4
  IN /\ s3 # <<>>
     /\ IsDigit(Head(s3))
     /\ toUpperAscii(trim(s5)) \in PackUnits

\* value.replace(/(...)\s*$/i, ''): the leftmost suffix that matches is removed
withoutTrailingPack(s) ==
  LET starts == {i \in 1..Len(s) : matchesTrailingPack(SubSeq(s, i, Len(s)))}
  IN IF starts = {} THEN s
     ELSE SubSeq(s, 1, (CHOOSE i \in starts : \A j \in starts : i <= j) - 1)

makeFrLabel(value) ==
  LET withoutCjk == SelectSeq(value, LAMBDA c : ~ IsCjk(c))
  IN trim(collapseWhitespace(withoutTrailingPack(withoutCjk)))

-----------------------------------------------------------------------------
(* Calendar *)

IsLeapYear(y) == (y % 4 = 0 /\ y % 100 # 0) \/ y % 400 = 0

DaysInMonth(y, m) ==
  IF m = 2 THEN (IF IsLeapYear(y) THEN 29 ELSE 28)
  ELSE IF m \in {4, 6, 9, 11} THEN 30 ELSE 31

\* Days from 1970-01-01 to the first day of year y
DayFromYear(y) ==
  365 * (y - 1970) + ((y - 1969) \div 4) - ((y - 1901) \div 100) + ((y - 1601) \div 400)

RECURSIVE DaysBeforeMonth(_, _)
DaysBeforeMonth(y, m) ==
  IF m = 1 THEN 0 ELSE DaysBeforeMonth(y, m - 1) + DaysInMonth(y, m - 1)

\* ECMAScript MakeDay(year, month, date): the date is not checked against the
\* month, day 30 of February is the second day of March
MakeDay(y, m, d) == DayFromYear(y) + DaysBeforeMonth(y, m) + d - 1

RECURSIVE YearFromDay(_, _)
YearFromDay(day, y) ==
  IF DayFromYear(y) > day THEN YearFromDay(day, y - 1)
  ELSE IF DayFromYear(y + 1) <= day THEN YearFromDay(day, y + 1)
  ELSE y

RECURSIVE MonthFromDay(_, _, _)
MonthFromDay(dayInYear, y, m) ==
  IF dayInYear < DaysBeforeMonth(y, m + 1) THEN m ELSE MonthFromDay(dayInYear, y, m + 1)

\* The civil date [year, month, day] of a day number
CivilFromDay(day) ==
  LET y == YearFromDay(day, 1970 + (day \div 365))
      dayInYear == day - DayFromYear(y)
      m == MonthFromDay(dayInYear, y, 1)
  IN [year |-> y, month |-> m, day |-> dayInYear - DaysBeforeMonth(y, m) + 1]

\* date.toISOString().slice(0, 10)
toISODate(date) ==
  LET c == CivilFromDay(date.day)
  IN padStart(DigitsOf(c.year), 4) \o T(<<"-">>) \o padStart(DigitsOf(c.month), 2)
       \o T(<<"-">>) \o padStart(DigitsOf(c.day), 2)

RECURSIVE parseDigits(_, _)
parseDigits(s, acc) ==
  IF s = <<>> THEN acc ELSE parseDigits(Tail(s), 10 * acc + (Head(s) - 48))

\* new Date(`${raw}T00:00:00.000Z`) on V8, for raw of the shape dddd-dd-dd:
\* NaN unless 1 <= month <= 12 and 1 <= day <= 31
\* A variant that takes every month and day
IsoDateTimeValidAlways(raw) == Len(raw) = 10

\* new Date(raw + "T00:00:00.000Z") is a valid time: V8 takes months 1..12 and
\* days 1..31
IsoDateTimeValid(raw) ==
  LET month == parseDigits(SubSeq(raw, 6, 7), 0)
      day == parseDigits(SubSeq(raw, 9, 10), 0)
  IN month >= 1 /\ month <= 12 /\ day >= 1 /\ day <= 31

IsoDateTime(raw) ==
  [day |-> MakeDay(parseDigits(SubSeq(raw, 1, 4), 0),
                   parseDigits(SubSeq(raw, 6, 7), 0),
                   parseDigits(SubSeq(raw, 9, 10), 0)),
   ms |-> 0]

\* A variant that takes any separator
MatchesDateShapeLoose(raw) ==
  Len(raw) = 10 /\ \A i \in {1, 2, 3, 4, 6, 7, 9, 10} : IsDigit(raw[i])

\* /^\d{4}-\d{2}-\d{2}$/.test(raw)
MatchesDateShape(raw) ==
  /\ Len(raw) = 10
  /\ \A i \in {1, 2, 3, 4, 6, 7, 9, 10} : IsDigit(raw[i])
  /\ raw[5] = 45
  /\ raw[8] = 45

\* The thrown BadRequestException as [ok |-> FALSE, message], or the Date
parseDeliveryDate(raw) ==
  IF raw = <<>> \/ ~ MatchesDateShape(raw)
    THEN [ok |-> FALSE, message |-> "deliveryDate must match YYYY-MM-DD"]
  ELSE IF ~ IsoDateTimeValid(raw)
    THEN [ok |-> FALSE, message |-> "deliveryDate is invalid"]
  ELSE [ok |-> TRUE, date |-> IsoDateTime(raw)]

-----------------------------------------------------------------------------
(* Reference data and request inputs *)

\* A quantity of the request body: the number num / den
Q(num, den) == [num |-> num, den |-> den]

\* A variant that takes every number for an integer
IsIntegerNumberAlways(q) == q.den # 0

\* Number.isInteger(quantity)
IsIntegerNumber(q) == q.num % q.den = 0

Restaurant ==
  (1 :> [name |-> T(<<"Z","e","n">>), address |-> T(<<"1"," ","r","u","e"," ","A">>)]) @@
  (2 :> [name |-> T(<<"L","o","t","u","s">>), address |-> T(<<"2"," ","r","u","e"," ","B">>)])

fournisseurs ==
  (1 :> [nom |-> T(<<"M","e","t","r","o">>)]) @@
  (2 :> [nom |-> T(<<"A","s","i","a">>)])

InitialProduits ==
  (1 :> [supplierId |-> 1, nomCn |-> T(<<"U+7C73">>),
         designationFr |-> T(<<"R","i","z"," ","8","K","G">>),
         unite |-> T(<<"k","g">>), prixUHt |-> Some(250),
         categorie |-> T(<<"s","e","c">>)]) @@
  (2 :> [supplierId |-> 1, nomCn |-> T(<<"U+9762">>),
         designationFr |-> NullText,
         unite |-> NullText, prixUHt |-> None,
         categorie |-> T(<<"s","e","c">>)]) @@
  (3 :> [supplierId |-> 2, nomCn |-> T(<<"T","o","f","u">>),
         designationFr |-> T(<<"T","o","f","u"," ","U+7BB1">>),
         unite |-> T(<<"U+7BB1">>), prixUHt |-> Some(120),
         categorie |-> T(<<"f","r","a","i","s">>)])

Actors ==
  { [id |-> 2, role |-> "ADMIN", restaurantId |-> None],
    [id |-> 3, role |-> "MANAGER", restaurantId |-> Some(1)],
    [id |-> 4, role |-> "MANAGER", restaurantId |-> Some(2)],
    [id |-> 5, role |-> "MANAGER", restaurantId |-> None],
    [id |-> 6, role |-> "EMPLOYEE", restaurantId |-> Some(1)] }

DeliveryDateInputs ==
  { T(<<"2","0","2","5","-","0","1","-","0","1">>),
    T(<<"2","0","2","5","/","0","1","/","0","1">>),
    T(<<"2","0","2","5","-","1","3","-","4","0">>),
    <<>> }

Line(productId, quantity) == [productId |-> productId, quantity |-> quantity]

\* payload.items: None when the body has no item list
ItemsInputs ==
  { None,
    Some(<<>>),
    Some(<<Line(1, Q(2, 1))>>),
    Some(<<Line(1, Q(1, 1)), Line(2, Q(3, 1))>>),
    Some(<<Line(1, Q(1, 1)), Line(3, Q(1, 1))>>),
    Some(<<Line(9, Q(1, 1))>>),
    Some(<<Line(1, Q(1, 1)), Line(1, Q(0, 1))>>),
    Some(<<Line(1, Q(-1, 1))>>),
    Some(<<Line(1, Q(3, 2))>>),
    Some(<<Line(1, Q(1, 1)), Line(3, Q(0, 1))>>) }

ValidDateInput == T(<<"2","0","2","5","-","0","1","-","0","1">>)

\* Request bodies: every item list with a well-formed date, and every date with
\* a valid list, a mixed-supplier list and a list with a zero quantity
Payloads ==
  [deliveryDate : {ValidDateInput}, items : ItemsInputs]
    \cup [deliveryDate : DeliveryDateInputs,
          items : { Some(<<Line(1, Q(2, 1))>>),
                    Some(<<Line(1, Q(1, 1)), Line(3, Q(1, 1))>>),
                    Some(<<Line(1, Q(1, 1)), Line(1, Q(0, 1))>>) }]

MixedSupplierItems == Some(<<Line(1, Q(1, 1)), Line(3, Q(1, 1))>>)

\* The calls of createOrder: a manager of restaurant 1 with every body, and
\* every actor with a valid and a mixed-supplier body, each under a well-formed
\* and a malformed date
CreateOrderRequests ==
  { [actor |-> a, payload |-> p] :
      a \in {x \in Actors : x.id = 3}, p \in Payloads }
    \cup { [actor |-> a, payload |-> p] :
             a \in Actors,
             p \in [deliveryDate : { ValidDateInput,
                                     T(<<"2","0","2","5","/","0","1","/","0","1">>) },
                    items : { Some(<<Line(1, Q(2, 1))>>), MixedSupplierItems }] }

\* The orders the model lets createOrder insert
MaxOrders == 1

\* The requests the server has in flight at one time
MaxCalls == 2

Slots == 1..MaxCalls

\* A slot with no request in it
Idle == [op |-> "none", pc |-> "idle"]

OrderIdInputs == 1..(MaxOrders + 1)

\* The id AUTO_INCREMENT gives first when the table has had 9998 orders
CalendarFirstOrderId == 10000 - 1

\* The ids the model lets createOrder give: from 1, and from CalendarFirstOrderId
CreatableIds ==
  (1..MaxOrders) \cup (CalendarFirstOrderId..(CalendarFirstOrderId + MaxOrders))

ProductIdInputs == {1, 9}

\* Bodies of PATCH /products/:id; a field that is not in the record is undefined
ProductPayloads ==
  { [nameFr |-> T(<<"P","a","t","e","s">>), nameZh |-> T(<<"U+9762">>),
     unit |-> T(<<"s","a","c">>), priceHt |-> Some(300)],
    [supplierId |-> Q(0, 1)],
    [nameZh |-> T(<<" ">>)],
    [category |-> T(<<" ">>)] }

-----------------------------------------------------------------------------
(* OrdersService *)

ordersDir == T(<<"u","p","l","o","a","d","s","/","o","r","d","e","r","s">>)

join(dir, name) == dir \o T(<<"/">>) \o name

Rejection(status, message) == Some([status |-> status, message |-> message])

RECURSIVE SumOf(_, _)
SumOf(seq, field) ==
  IF seq = <<>> THEN 0 ELSE Head(seq)[field] + SumOf(Tail(seq), field)

\* The rows of a table in ascending id order
RECURSIVE SortById(_)
SortById(rows) ==
  IF rows = {} THEN <<>>
  ELSE LET first == CHOOSE r \in rows : \A o \in rows : r.id <= o.id
       IN <<first>> \o SortById(rows \ {first})

\* A variant that lets every role through
ensureCanManageOrdersAlways(actor) == actor.role # ""

ensureCanManageOrders(actor) == actor.role = "ADMIN" \/ actor.role = "MANAGER"

\* !actor.restaurantId: null and 0 are both falsy
HasRestaurant(actor) == actor.restaurantId # None /\ actor.restaurantId[1] # 0

distinctProductIds(items) == {items[i].productId : i \in 1..Len(items)}

\* prisma.produit.findMany({ where: { id: { in: ... } } })
findProducts(ids) == {id \in DOMAIN produits : id \in ids}

\* A variant that looks at the supplier of one product only
supplierIdsOfOne(ids) ==
  {produits[CHOOSE id \in findProducts(ids) : \A other \in findProducts(ids) : id <= other].supplierId}

supplierIdsOf(ids) == {produits[id].supplierId : id \in findProducts(ids)}

\* The exception createOrder throws before it writes, or None
createOrderRejection(actor, payload) ==
  LET deliveryDate == parseDeliveryDate(payload.deliveryDate)
      items == payload.items[1]
      ids == distinctProductIds(items)
  IN IF ~ ensureCanManageOrders(actor)
       THEN Rejection(403, "Only ADMIN and MANAGER can access orders")
     ELSE IF ~ HasRestaurant(actor)
       THEN Rejection(400, "User must be assigned to a restaurant")
     ELSE IF ~ deliveryDate.ok THEN Rejection(400, deliveryDate.message)
     ELSE IF payload.items = None \/ Len(items) = 0
       THEN Rejection(400, "At least one item is required")
     ELSE IF \E i \in 1..Len(items) :
                ~ IsIntegerNumber(items[i].quantity) \/ items[i].quantity.num <= 0
       THEN Rejection(400, "Item quantity must be a positive integer")
     ELSE IF Cardinality(findProducts(ids)) # Cardinality(ids)
       THEN Rejection(400, "Some selected products do not exist")
     ELSE IF Cardinality(supplierIdsOf(ids)) # 1
       THEN Rejection(400, "Order must include products from one supplier only")
     ELSE IF (CHOOSE id \in supplierIdsOf(ids) : TRUE) \notin DOMAIN fournisseurs
       THEN Rejection(404, "Supplier not found")
     ELSE IF actor.restaurantId[1] \notin DOMAIN Restaurant
       THEN Rejection(404, "Restaurant not found")
     ELSE None

\* A variant that prices every product at 0
priceOfNothing(product) == 0

\* Number(product.prixUHt ?? 0), in cents
priceOf(product) == IF product.prixUHt = None THEN 0 ELSE product.prixUHt[1]

preparedItems(items) ==
  [i \in 1..Len(items) |->
     LET product == produits[items[i].productId]
         quantity == items[i].quantity.num \div items[i].quantity.den
     IN [productId |-> items[i].productId,
         product |-> product,
         quantity |-> quantity,
         unitPrice |-> priceOf(product),
         lineTotal |-> priceOf(product) * quantity]]

\* String(Date.now()): the seconds since the epoch, then the milliseconds
dateNowText(time) ==
  DigitsOf(time.day * 86400 + (time.ms \div 1000)) \o padStart(DigitsOf(time.ms % 1000), 3)

\* created_at TIMESTAMP DEFAULT CURRENT_TIMESTAMP keeps whole seconds
currentTimestamp(time) == [day |-> time.day, ms |-> time.ms - (time.ms % 1000)]

\* The server runs in UTC: getFullYear, getMonth and getDate read the UTC date
buildOrderNumber(orderId, createdAt) ==
  LET c == CivilFromDay(createdAt.day)
      paddedId == padStart(DigitsOf(orderId), 4)
  IN T(<<"P","O","-">>) \o DigitsOf(c.year) \o padStart(DigitsOf(c.month), 2)
       \o padStart(DigitsOf(c.day), 2) \o T(<<"-">>) \o paddedId

buildOrderUrl(orderId) ==
  T(<<"/","o","r","d","e","r","s","/">>) \o DigitsOf(orderId)
    \o T(<<"/","c","o","m","m","a","n","d","e">>)

\* Number.prototype.toFixed(2) of an amount in cents, amount >= 0
toFixed2(cents) ==
  DigitsOf(cents \div 100) \o T(<<".">>) \o padStart(DigitsOf(cents % 100), 2)

\* item.unit?.trim() || '-'
trimmedOrDash(value) ==
  IF trim(OrElse(value, <<>>)) = <<>> THEN T(<<"-">>) ELSE trim(OrElse(value, <<>>))

\* What drawItemsTable writes for one item
drawRow(item) ==
  [productNameFr |-> truncateText(sanitizeLabel(item.nameFr), 44),
   productNameZh |-> truncateText(sanitizeLabel(item.nameZh), 44),
   orderUnit |-> sanitizeLabel(trimmedOrDash(item.unit)),
   quantity |-> DigitsOf(item.quantity),
   unitPrice |-> toFixed2(item.unitPrice)]

\* The texts drawHeader writes under the title
drawHeader(input, time) ==
  [numero |-> input.orderNumber, emission |-> toISODate(time)]

drawOrderMeta(input) ==
  [fournisseur |-> input.supplierName,
   etablissement |-> input.restaurantName,
   dateDeLivraison |-> input.deliveryDate,
   adresse |-> input.deliveryAddress]

drawItemsTable(input) == [i \in 1..Len(input.items) |-> drawRow(input.items[i])]

\* A variant that leaves the table out when the file is already on disk
generateCommandePdfOnce(input, time) ==
  [blocks |-> <<"decorations", "header", "meta", "table", "footer">>,
   header |-> drawHeader(input, time),
   meta |-> drawOrderMeta(input),
   rows |-> IF input.filePath \in DOMAIN files THEN <<>> ELSE drawItemsTable(input)]

\* The texts drawTotals writes; generateCommandePdf does not call it
drawTotals(input) ==
  [articlesTotal |-> DigitsOf(input.totalItems),
   montantTotalHt |-> toFixed2(input.totalAmount)]

\* The file generateCommandePdf writes: the blocks drawn, in order, and their
\* text (where the decorations fall on the page is left out)
generateCommandePdf(input, time) ==
  [blocks |-> <<"decorations", "header", "meta", "table", "footer">>,
   header |-> drawHeader(input, time),
   meta |-> drawOrderMeta(input),
   rows |-> drawItemsTable(input)]

\* this.sanitizeLabel(this.makeFrLabel(frRaw)) || this.sanitizeLabel(frRaw)
frLabel(frRaw) ==
  IF sanitizeLabel(makeFrLabel(frRaw)) # <<>>
    THEN sanitizeLabel(makeFrLabel(frRaw)) ELSE sanitizeLabel(frRaw)

Answer(op, status, message, value) ==
  [op |-> op, status |-> status, message |-> message, value |-> value]

\* A variant that files every order under restaurant 1
createdOrderOfFirstRestaurant(actor, payload, time) ==
  LET items == preparedItems(payload.items[1])
  IN [id |-> nextOrderId,
      number |-> T(<<"P","O","-","T","M","P","-">>) \o dateNowText(time),
      supplierId |-> CHOOSE id \in supplierIdsOf(distinctProductIds(payload.items[1])) : TRUE,
      restaurantId |-> 1,
      createdByUserId |-> actor.id,
      deliveryDate |-> parseDeliveryDate(payload.deliveryDate).date,
      deliveryAddress |-> Restaurant[1].address,
      totalItems |-> SumOf(items, "quantity"),
      totalAmount |-> SumOf(items, "lineTotal"),
      bonFileName |-> T(<<"p","e","n","d","i","n","g",".","p","d","f">>),
      createdAt |-> currentTimestamp(time)]

\* The header as prisma.purchaseOrder.create inserts it
createdOrderOf(actor, payload, time) ==
  LET items == preparedItems(payload.items[1])
  IN [id |-> nextOrderId,
      number |-> T(<<"P","O","-","T","M","P","-">>) \o dateNowText(time),
      supplierId |-> CHOOSE id \in supplierIdsOf(distinctProductIds(payload.items[1])) : TRUE,
      restaurantId |-> actor.restaurantId[1],
      createdByUserId |-> actor.id,
      deliveryDate |-> parseDeliveryDate(payload.deliveryDate).date,
      deliveryAddress |-> Restaurant[actor.restaurantId[1]].address,
      totalItems |-> SumOf(items, "quantity"),
      totalAmount |-> SumOf(items, "lineTotal"),
      bonFileName |-> T(<<"p","e","n","d","i","n","g",".","p","d","f">>),
      createdAt |-> currentTimestamp(time)]

orderFileNameOf(orderNumber) ==
  T(<<"c","o","m","m","a","n","d","e","-">>) \o orderNumber \o T(<<".","p","d","f">>)

\* The header after prisma.purchaseOrder.update
updatedOrderOf(createdOrder) ==
  LET orderNumber == buildOrderNumber(createdOrder.id, createdOrder.createdAt)
  IN [createdOrder EXCEPT !.number = orderNumber,
                          !.bonFileName = orderFileNameOf(orderNumber)]

\* A variant that stores the product id in the supplier column
createdItemsOfProductAsSupplier(createdOrder, items) ==
  { [id |-> nextItemId + i - 1,
     purchaseOrderId |-> createdOrder.id,
     productId |-> items[i].productId,
     supplierId |-> items[i].productId,
     quantity |-> items[i].quantity,
     unitPriceHt |-> items[i].unitPrice,
     lineTotal |-> items[i].lineTotal,
     nameZh |-> items[i].product.nomCn,
     nameFr |-> items[i].product.designationFr,
     unit |-> items[i].product.unite,
     category |-> items[i].product.categorie] : i \in 1..Len(items) }

\* The rows prisma.purchaseOrderItem.createMany inserts
createdItemsOf(createdOrder, items) ==
  { [id |-> nextItemId + i - 1,
     purchaseOrderId |-> createdOrder.id,
     productId |-> items[i].productId,
     supplierId |-> createdOrder.supplierId,
     quantity |-> items[i].quantity,
     unitPriceHt |-> items[i].unitPrice,
     lineTotal |-> items[i].lineTotal,
     nameZh |-> items[i].product.nomCn,
     nameFr |-> items[i].product.designationFr,
     unit |-> items[i].product.unite,
     category |-> items[i].product.categorie] : i \in 1..Len(items) }

\* The CommandePdfInput createOrder builds, from the catalog
createInputOf(order, payload, items) ==
  [filePath |-> join(ordersDir, order.bonFileName),
   orderNumber |-> order.number,
   supplierName |-> fournisseurs[order.supplierId].nom,
   restaurantName |-> Restaurant[order.restaurantId].name,
   deliveryDate |-> payload.deliveryDate,
   deliveryAddress |-> Restaurant[order.restaurantId].address,
   items |-> [i \in 1..Len(items) |->
     [nameFr |-> frLabel(recoverUtf8(
                   OrElse(items[i].product.designationFr, items[i].product.nomCn))),
      nameZh |-> sanitizeLabel(recoverUtf8(items[i].product.nomCn)),
      unit |-> sanitizeLabel(trimmedOrDash(items[i].product.unite)),
      quantity |-> items[i].quantity,
      unitPrice |-> items[i].unitPrice,
      lineTotal |-> items[i].lineTotal]],
   totalItems |-> order.totalItems,
   totalAmount |-> order.totalAmount]

createOrder(actor, payload) ==
  LET rejection == createOrderRejection(actor, payload) IN
  IF rejection # None
    THEN /\ response' = Answer("createOrder", rejection[1].status, rejection[1].message, None)
         /\ UNCHANGED <<produits, purchaseOrders, purchaseOrderItems, nextOrderId,
                        nextItemId, files, now, unlinkedPaths, outside, calls>>
    ELSE LET items == preparedItems(payload.items[1])
             order == updatedOrderOf(createdOrderOf(actor, payload, now))
             input == createInputOf(order, payload, items)
         IN /\ nextOrderId \in CreatableIds
            /\ purchaseOrders' = purchaseOrders \cup {order}
            /\ purchaseOrderItems' = purchaseOrderItems \cup createdItemsOf(order, items)
            /\ nextOrderId' = nextOrderId + 1
            /\ nextItemId' = nextItemId + Len(items)
            /\ \E written \in BOOLEAN :
                 IF written
                   THEN /\ files' = (input.filePath :> generateCommandePdf(input, now))
                                      @@ files
                        /\ response' = Answer("createOrder", 200, "",
                             Some([id |-> order.id,
                                   number |-> order.number,
                                   supplierId |-> order.supplierId,
                                   supplierName |-> fournisseurs[order.supplierId].nom,
                                   deliveryDate |-> payload.deliveryDate,
                                   deliveryAddress |-> order.deliveryAddress,
                                   totalItems |-> order.totalItems,
                                   totalAmount |-> order.totalAmount,
                                   commandeUrl |-> buildOrderUrl(order.id),
                                   createdAt |-> order.createdAt]))
                   ELSE /\ files' = files
                        /\ response' = Answer("createOrder", 500, "write stream error", None)
            /\ UNCHANGED <<produits, now, unlinkedPaths, outside, calls>>

\* A variant without the restaurant filter
listedOrdersUnscoped(actor) == {o \in purchaseOrders : actor.role # ""}

\* where: ADMIN sees every order, anyone else { restaurantId: actor.restaurantId ?? -1 }
listedOrders(actor) ==
  IF actor.role = "ADMIN" THEN purchaseOrders
  ELSE {o \in purchaseOrders :
          o.restaurantId = (IF actor.restaurantId = None THEN -1 ELSE actor.restaurantId[1])}

\* a.createdAt is not earlier than b.createdAt
NotEarlier(a, b) ==
  a.createdAt.day > b.createdAt.day
    \/ (a.createdAt.day = b.createdAt.day /\ a.createdAt.ms >= b.createdAt.ms)

orderSummary(order) ==
  [id |-> order.id,
   number |-> order.number,
   supplierId |-> order.supplierId,
   supplierName |-> fournisseurs[order.supplierId].nom,
   deliveryDate |-> toISODate(order.deliveryDate),
   deliveryAddress |-> order.deliveryAddress,
   totalItems |-> order.totalItems,
   totalAmount |-> order.totalAmount,
   commandeUrl |-> buildOrderUrl(order.id),
   createdAt |-> order.createdAt]

\* The sequences that list a set of orders by createdAt descending; the order
\* among rows of one createdAt is the database's choice
RECURSIVE descendingOrders(_)
descendingOrders(orders) ==
  IF orders = {} THEN {<<>>}
  ELSE UNION { { <<first>> \o rest : rest \in descendingOrders(orders \ {first}) } :
               first \in {o \in orders : \A other \in orders : NotEarlier(o, other)} }

listOrders(actor) ==
  /\ IF ~ ensureCanManageOrders(actor)
       THEN response' = Answer("listOrders", 403,
                               "Only ADMIN and MANAGER can access orders", None)
       ELSE \E orders \in descendingOrders(listedOrders(actor)) :
              response' = Answer("listOrders", 200, "",
                                 [i \in 1..Len(orders) |-> orderSummary(orders[i])])
  /\ UNCHANGED <<produits, purchaseOrders, purchaseOrderItems, nextOrderId,
                 nextItemId, files, now, unlinkedPaths, outside, calls>>

\* prisma.purchaseOrder.findUnique({ where: { id: orderId } }): the rows found
findOrder(orderId) == {o \in purchaseOrders : o.id = orderId}

\* A variant without the restaurant comparison
orderAccessRejectionAnyRestaurant(orderId, actor) ==
  IF ~ ensureCanManageOrders(actor)
    THEN Rejection(403, "Only ADMIN and MANAGER can access orders")
  ELSE IF findOrder(orderId) = {} THEN Rejection(404, "Order not found")
  ELSE None

\* The exception resolveOrderFilePath and deleteOrder throw before acting, or None
orderAccessRejection(orderId, actor) ==
  IF ~ ensureCanManageOrders(actor)
    THEN Rejection(403, "Only ADMIN and MANAGER can access orders")
  ELSE IF findOrder(orderId) = {} THEN Rejection(404, "Order not found")
  ELSE IF actor.role # "ADMIN"
          /\ Some((CHOOSE o \in findOrder(orderId) : TRUE).restaurantId) # actor.restaurantId
    THEN Rejection(403, "Order does not belong to your restaurant")
  ELSE None

\* The CommandePdfInput resolveOrderFilePath builds, from the stored order, its
\* items by ascending id, and the product each item references
resolveInputOf(order) ==
  LET items == SortById({i \in purchaseOrderItems : i.purchaseOrderId = order.id})
  IN [filePath |-> join(ordersDir, order.bonFileName),
      orderNumber |-> order.number,
      supplierName |-> fournisseurs[order.supplierId].nom,
      restaurantName |-> Restaurant[order.restaurantId].name,
      deliveryDate |-> toISODate(order.deliveryDate),
      deliveryAddress |-> order.deliveryAddress,
      items |-> [i \in 1..Len(items) |->
        LET item == items[i]
            product == produits[item.productId]
            unitCandidate ==
              IF trim(OrElse(product.unite, <<>>)) # <<>>
                THEN trim(OrElse(product.unite, <<>>))
                ELSE trimmedOrDash(item.unit)
        IN [nameFr |-> frLabel(recoverUtf8(OrElse(product.designationFr, item.nameZh))),
            nameZh |-> sanitizeLabel(resolveZhName(item.nameZh, product.nomCn)),
            unit |-> sanitizeLabel(unitCandidate),
            quantity |-> item.quantity,
            unitPrice |-> item.unitPriceHt,
            lineTotal |-> item.quantity * item.unitPriceHt]],
      totalItems |-> order.totalItems,
      totalAmount |-> order.totalAmount]

resolveOrderFilePath(orderId, actor) ==
  LET rejection == orderAccessRejection(orderId, actor) IN
  /\ IF rejection # None
       THEN /\ response' = Answer("resolveOrderFilePath", rejection[1].status,
                                  rejection[1].message, None)
            /\ files' = files
       ELSE LET order == CHOOSE o \in findOrder(orderId) : TRUE
                input == resolveInputOf(order)
                fullPath == input.filePath
            IN \E written \in BOOLEAN :
                 IF written
                   THEN /\ files' = (fullPath :> generateCommandePdf(input, now))
                                      @@ files
                        /\ response' = Answer("resolveOrderFilePath", 200, "", fullPath)
                   ELSE /\ files' = files
                        /\ response' = Answer("resolveOrderFilePath", 500,
                                              "write stream error", None)
  /\ UNCHANGED <<produits, purchaseOrders, purchaseOrderItems, nextOrderId,
                 nextItemId, now, unlinkedPaths, outside, calls>>

\* A variant that leaves the items of a deleted order
deleteCascadeNothing(orderId) == {i \in purchaseOrderItems : i.purchaseOrderId > 0}

\* The items left by ON DELETE CASCADE when the header of orderId is deleted
deleteCascade(orderId) == {i \in purchaseOrderItems : i.purchaseOrderId # orderId}

\* A variant that deletes nothing
deleteWhereNothing(orderId) == {o \in purchaseOrders : o.id # orderId \/ o.id = orderId}

\* The headers left by prisma.purchaseOrder.delete({ where: { id: orderId } })
deleteWhere(orderId) == {o \in purchaseOrders : o.id # orderId}

deleteOrder(orderId, actor) ==
  LET rejection == orderAccessRejection(orderId, actor) IN
  IF rejection # None
    THEN /\ response' = Answer("deleteOrder", rejection[1].status,
                               rejection[1].message, None)
         /\ UNCHANGED <<produits, purchaseOrders, purchaseOrderItems, nextOrderId,
                        nextItemId, files, now, unlinkedPaths, outside, calls>>
    ELSE LET order == CHOOSE o \in findOrder(orderId) : TRUE
             filePath == join(ordersDir, order.bonFileName)
         IN \* ON DELETE CASCADE removes the items with the header
            /\ purchaseOrders' = deleteWhere(orderId)
            /\ purchaseOrderItems' = deleteCascade(orderId)
            /\ \E unlinked \in BOOLEAN :
                 IF filePath \in DOMAIN files /\ unlinked
                   THEN /\ files' = [f \in DOMAIN files \ {filePath} |-> files[f]]
                        /\ unlinkedPaths' = unlinkedPaths \cup {filePath}
                   ELSE UNCHANGED <<files, unlinkedPaths>>
            /\ response' = Answer("deleteOrder", 200, "", Some(orderId))
            /\ UNCHANGED <<produits, nextOrderId, nextItemId, now, outside, calls>>

-----------------------------------------------------------------------------
(* ProductsService *)

Has(payload, field) == field \in DOMAIN payload

\* The exception updateProduct throws before it writes, or None
updateProductRejection(productId, payload) ==
  IF productId \notin DOMAIN produits THEN Rejection(404, "Product not found")
  ELSE IF Has(payload, "supplierId")
          /\ (~ IsIntegerNumber(payload.supplierId) \/ payload.supplierId.num <= 0)
    THEN Rejection(400, "supplierId must be a positive integer")
  ELSE IF Has(payload, "category") /\ trim(payload.category) = <<>>
    THEN Rejection(400, "category cannot be empty")
  ELSE IF Has(payload, "nameZh") /\ trim(payload.nameZh) = <<>>
    THEN Rejection(400, "nameZh cannot be empty")
  ELSE None

\* The row after prisma.produit.update({ data })
updatedProduct(product, payload) ==
  [supplierId |-> IF Has(payload, "supplierId")
                    THEN payload.supplierId.num \div payload.supplierId.den
                    ELSE product.supplierId,
   categorie |-> IF Has(payload, "category") THEN trim(payload.category)
                 ELSE product.categorie,
   nomCn |-> IF Has(payload, "nameZh") THEN trim(payload.nameZh) ELSE product.nomCn,
   designationFr |-> IF Has(payload, "nameFr") THEN payload.nameFr
                     ELSE product.designationFr,
   unite |-> IF Has(payload, "unit") THEN payload.unit ELSE product.unite,
   prixUHt |-> IF Has(payload, "priceHt") THEN payload.priceHt ELSE product.prixUHt]

updateProduct(productId, payload) ==
  LET rejection == updateProductRejection(productId, payload) IN
  /\ IF rejection # None
       THEN /\ response' = Answer("updateProduct", rejection[1].status,
                                  rejection[1].message, None)
            /\ produits' = produits
       ELSE /\ produits' = [produits EXCEPT
                              ![productId] = updatedProduct(produits[productId], payload)]
            /\ response' = Answer("updateProduct", 200, "", Some(productId))
  /\ UNCHANGED <<purchaseOrders, purchaseOrderItems, nextOrderId, nextItemId,
                 files, now, unlinkedPaths, outside, calls>>

-----------------------------------------------------------------------------
(* The system as a whole *)

\* The user table at the start: the administrator, the managers of restaurants
\* 1 and 2, and an employee that has no restaurant yet
InitialUsers ==
  << [email |-> <<"admin", 0>>, passwordHash |-> <<"bcrypt", "pa">>, role |-> "ADMIN",
      restaurantId |-> None, isApproved |-> TRUE],
     [email |-> <<"m", 1>>, passwordHash |-> <<"bcrypt", "pa">>, role |-> "MANAGER",
      restaurantId |-> Some(1), isApproved |-> TRUE],
     [email |-> <<"m", 2>>, passwordHash |-> <<"bcrypt", "pa">>, role |-> "MANAGER",
      restaurantId |-> Some(2), isApproved |-> TRUE],
     [email |-> <<"e", 0>>, passwordHash |-> <<"bcrypt", "pa">>, role |-> "EMPLOYEE",
      restaurantId |-> None, isApproved |-> TRUE] >>

\* The user table and the session stores while only orders are worked on
InitOutside ==
  /\ users = InitialUsers
  /\ userResponse = [op |-> "none", status |-> 0, message |-> "", userId |-> 0]
  /\ asyncStorage = [k \in {} |-> ""]
  /\ sessionStorage = [k \in {} |-> ""]
  /\ window = "defined"
  /\ sessionResponse = [op |-> "none", session |-> None, rememberMe |-> TRUE]

\* The last millisecond of 2026-02-25 (UTC)
StartTime == [day |-> MakeDay(2026, 2, 25), ms |-> 86399999]

Init ==
  /\ produits = InitialProduits
  /\ purchaseOrders = {}
  /\ purchaseOrderItems = {}
  /\ nextOrderId = 1
  /\ nextItemId = 1
  /\ files = [f \in {} |-> {}]
  /\ now = StartTime
  /\ response = Answer("none", 0, "", None)
  /\ calls = [c \in Slots |-> Idle]
  /\ unlinkedPaths = {}
  /\ InitOutside

Next ==
  \/ \E request \in CreateOrderRequests : createOrder(request.actor, request.payload)
  \/ \E actor \in Actors : listOrders(actor)
  \/ \E orderId \in OrderIdInputs, actor \in Actors : resolveOrderFilePath(orderId, actor)
  \/ \E orderId \in OrderIdInputs, actor \in Actors : deleteOrder(orderId, actor)
  \/ \E productId \in ProductIdInputs, payload \in ProductPayloads :
       updateProduct(productId, payload)

Spec == Init /\ [][Next]_vars

-----------------------------------------------------------------------------
(* Order creation under a running clock, on a table that has had 9998 orders *)

\* The instants at which the clock is read (UTC): the last millisecond of
\* 2026-02-25, the first of 2026-02-26, and the first of 2027-01-01
Instants ==
  << StartTime,
     [day |-> MakeDay(2026, 2, 26), ms |-> 0],
     [day |-> MakeDay(2027, 1, 1), ms |-> 0] >>

\* Time passes: Date.now() and CURRENT_TIMESTAMP move to the next instant
Tick ==
  /\ \E i \in 1..(Len(Instants) - 1) : now = Instants[i] /\ now' = Instants[i + 1]
  /\ UNCHANGED <<produits, purchaseOrders, purchaseOrderItems, nextOrderId,
                 nextItemId, files, response, calls, unlinkedPaths, outside>>

\* Delivery dates of shape YYYY-MM-DD: a leap day, two days their month does
\* not have, and a day no month has
CalendarDateInputs ==
  { T(<<"2","0","2","4","-","0","2","-","2","9">>),
    T(<<"2","0","2","5","-","0","2","-","3","0">>),
    T(<<"2","0","2","5","-","0","4","-","3","1">>),
    T(<<"2","0","2","5","-","0","2","-","3","2">>) }

\* createOrder calls of the manager of restaurant 1 for two units of product 1
CalendarRequests ==
  { [actor |-> a, payload |-> [deliveryDate |-> d, items |-> Some(<<Line(1, Q(2, 1))>>)]] :
      a \in {x \in Actors : x.id = 3}, d \in CalendarDateInputs }

InitCalendar ==
  /\ produits = InitialProduits
  /\ purchaseOrders = {}
  /\ purchaseOrderItems = {}
  /\ nextOrderId = CalendarFirstOrderId
  /\ nextItemId = 1
  /\ files = [f \in {} |-> {}]
  /\ now = StartTime
  /\ response = Answer("none", 0, "", None)
  /\ calls = [c \in Slots |-> Idle]
  /\ unlinkedPaths = {}
  /\ InitOutside

NextCalendar ==
  \/ \E request \in CalendarRequests : createOrder(request.actor, request.payload)
  \/ \E actor \in {x \in Actors : x.id = 3} : listOrders(actor)
  \/ Tick

SpecCalendar == InitCalendar /\ [][NextCalendar]_vars

-----------------------------------------------------------------------------
(* The requests step by step: every await of OrdersService is a point where *)
(* the other requests in flight may run.  calls[c] is the request in slot c *)
(* with its position (pc) and the local values it carries.                  *)

\* The manager of restaurant 1
StepActors == {a \in Actors : a.id = 3}

\* createOrder calls for two units of product 1
StepRequests ==
  { [actor |-> a, payload |-> [deliveryDate |-> ValidDateInput,
                               items |-> Some(<<Line(1, Q(2, 1))>>)]] : a \in StepActors }

\* The catalog edit of product 1
StepProductPayloads == {p \in ProductPayloads : updateProductRejection(1, p) = None}

\* A file whose stream has been opened and has not finished
IncompleteFile == [blocks |-> <<>>]

\* The slots, other than c, whose stream is open on the file at path
otherWriters(c, path) ==
  {d \in Slots \ {c} : calls[d].pc = "writing" /\ calls[d].input.filePath = path
                         /\ calls[d].linked}

\* A variant of createWriteStream that waits for the open streams on the path
createWriteStreamExclusive(c, path) == otherWriters(c, path) = {}

\* createWriteStream(path) opens with flag 'w' whatever streams are open on path
createWriteStreamOpens(c, path) == TRUE

\* A variant that finds every file
existsSyncAlways(path, fs) == path = path

\* existsSync(path) on the file system fs
existsSync(path, fs) == path \in DOMAIN fs

\* A variant of the position after the header insert that skips the update
afterInsertSkippingUpdate(createdOrder) ==
  [pc |-> "createItems", order |-> updatedOrderOf(createdOrder)]

\* After the header insert: the update of number and file name is next, with
\* the number built from the id and createdAt of the inserted row
afterInsert(createdOrder) ==
  [pc |-> "updateHeader", order |-> updatedOrderOf(createdOrder)]

\* A variant in which an interrupted request takes its rows with it
committedRolledBack(orders) ==
  {o \in orders : \A c \in Slots :
     calls[c].op = "createOrder" /\ calls[c].pc \in {"updateHeader", "createItems"}
       => calls[c].order.id # o.id}

\* What an interrupt leaves of the headers: every row a finished query wrote
\* (no query of createOrder runs in a transaction)
committed(orders) == orders

Return(c) == calls' = [calls EXCEPT ![c] = Idle]

\* A request takes the first free slot
Free(c) == calls[c] = Idle /\ \A d \in Slots : d < c => calls[d] # Idle

\* createOrder up to its first write: the checks and the catalog reads
beginCreateOrder(c, actor, payload) ==
  /\ Free(c)
  /\ LET rejection == createOrderRejection(actor, payload) IN
     IF rejection # None
       THEN /\ response' = Answer("createOrder", rejection[1].status,
                                  rejection[1].message, None)
            /\ calls' = calls
       ELSE /\ calls' = [calls EXCEPT ![c] =
                 [op |-> "createOrder", pc |-> "insertHeader", actor |-> actor,
                  payload |-> payload, items |-> preparedItems(payload.items[1]),
                  supplierId |-> createdOrderOf(actor, payload, now).supplierId,
                  headerWrites |-> 0]]
            /\ response' = response
  /\ UNCHANGED <<produits, purchaseOrders, purchaseOrderItems, nextOrderId,
                 nextItemId, files, now, unlinkedPaths, outside>>

\* prisma.purchaseOrder.create, with the supplier and the totals of the items
\* the call prepared from the products it read; number is UNIQUE, and a failed
\* insert uses up its AUTO_INCREMENT value
insertHeader(c) ==
  /\ calls[c].op = "createOrder" /\ calls[c].pc = "insertHeader"
  /\ nextOrderId \in CreatableIds
  /\ LET createdOrder ==
           [createdOrderOf(calls[c].actor, calls[c].payload, now) EXCEPT
              !.supplierId = calls[c].supplierId,
              !.totalItems = SumOf(calls[c].items, "quantity"),
              !.totalAmount = SumOf(calls[c].items, "lineTotal")] IN
     IF \E o \in purchaseOrders : o.number = createdOrder.number
       THEN /\ response' = Answer("createOrder", 500, "Unique constraint failed", None)
            /\ Return(c)
            /\ purchaseOrders' = purchaseOrders
       ELSE /\ purchaseOrders' = purchaseOrders \cup {createdOrder}
            /\ calls' = [calls EXCEPT ![c] =
                 [op |-> "createOrder", actor |-> calls[c].actor,
                  payload |-> calls[c].payload, items |-> calls[c].items,
                  headerWrites |-> calls[c].headerWrites + 1,
                  pc |-> afterInsert(createdOrder).pc,
                  order |-> afterInsert(createdOrder).order]]
            /\ response' = response
  /\ nextOrderId' = nextOrderId + 1
  /\ UNCHANGED <<produits, purchaseOrderItems, nextItemId, files, now,
                 unlinkedPaths, outside>>

\* prisma.purchaseOrder.update({ where: { id }, data: { number, bonFileName } });
\* it throws when the row is gone
updateHeader(c) ==
  /\ calls[c].op = "createOrder" /\ calls[c].pc = "updateHeader"
  /\ IF findOrder(calls[c].order.id) = {}
       THEN /\ response' = Answer("createOrder", 500, "Record to update not found", None)
            /\ Return(c)
            /\ purchaseOrders' = purchaseOrders
       ELSE /\ purchaseOrders' =
                 { IF o.id = calls[c].order.id
                     THEN [o EXCEPT !.number = calls[c].order.number,
                                    !.bonFileName = calls[c].order.bonFileName]
                     ELSE o : o \in purchaseOrders }
            /\ calls' = [calls EXCEPT ![c].pc = "createItems",
                                      ![c].headerWrites = @ + 1]
            /\ response' = response
  /\ UNCHANGED <<produits, purchaseOrderItems, nextOrderId, nextItemId, files, now,
                 unlinkedPaths, outside>>

\* prisma.purchaseOrderItem.createMany; the foreign key needs the header
createItems(c) ==
  /\ calls[c].op = "createOrder" /\ calls[c].pc = "createItems"
  /\ IF findOrder(calls[c].order.id) = {}
       THEN /\ response' = Answer("createOrder", 500, "Foreign key constraint failed", None)
            /\ Return(c)
            /\ UNCHANGED <<purchaseOrderItems, nextItemId>>
       ELSE /\ purchaseOrderItems' =
                 purchaseOrderItems \cup createdItemsOf(calls[c].order, calls[c].items)
            /\ nextItemId' = nextItemId + Len(calls[c].items)
            /\ calls' = [calls EXCEPT ![c] =
                 [op |-> "createOrder", pc |-> "openStream", actor |-> calls[c].actor,
                  payload |-> calls[c].payload, order |-> calls[c].order,
                  headerWrites |-> calls[c].headerWrites,
                  input |-> createInputOf(calls[c].order, calls[c].payload,
                                          calls[c].items)]]
            /\ response' = response
  /\ UNCHANGED <<produits, purchaseOrders, nextOrderId, files, now, unlinkedPaths,
                 outside>>

\* resolveOrderFilePath up to generateCommandePdf: the role check, the read of
\* the order with its items and their products, and the restaurant check
beginResolveOrderFilePath(c, orderId, actor) ==
  /\ Free(c)
  /\ LET rejection == orderAccessRejection(orderId, actor) IN
     IF rejection # None
       THEN /\ response' = Answer("resolveOrderFilePath", rejection[1].status,
                                  rejection[1].message, None)
            /\ calls' = calls
       ELSE /\ calls' = [calls EXCEPT ![c] =
                 [op |-> "resolveOrderFilePath", pc |-> "openStream",
                  actor |-> actor, orderId |-> orderId,
                  input |-> resolveInputOf(CHOOSE o \in findOrder(orderId) : TRUE)]]
            /\ response' = response
  /\ UNCHANGED <<produits, purchaseOrders, purchaseOrderItems, nextOrderId,
                 nextItemId, files, now, unlinkedPaths, outside>>

\* generateCommandePdf: the document is drawn, from the input and the clock
\* as they are now, and the stream opens its file, creating or truncating it
createWriteStream(c) ==
  /\ calls[c].pc = "openStream"
  /\ createWriteStreamOpens(c, calls[c].input.filePath)
  /\ files' = (calls[c].input.filePath :> IncompleteFile) @@ files
  /\ calls' = [calls EXCEPT ![c] =
       [op |-> calls[c].op, pc |-> "writing", actor |-> calls[c].actor,
        orderId |-> IF calls[c].op = "createOrder" THEN calls[c].order.id
                    ELSE calls[c].orderId,
        headerWrites |-> IF calls[c].op = "createOrder" THEN calls[c].headerWrites
                         ELSE 0,
        input |-> calls[c].input, linked |-> TRUE,
        drawnAt |-> now,
        value |-> IF calls[c].op = "createOrder"
                    THEN Some([id |-> calls[c].order.id,
                               number |-> calls[c].order.number,
                               supplierId |-> calls[c].order.supplierId,
                               supplierName |-> fournisseurs[calls[c].order.supplierId].nom,
                               deliveryDate |-> calls[c].payload.deliveryDate,
                               deliveryAddress |-> calls[c].order.deliveryAddress,
                               totalItems |-> calls[c].order.totalItems,
                               totalAmount |-> calls[c].order.totalAmount,
                               commandeUrl |-> buildOrderUrl(calls[c].order.id),
                               createdAt |-> calls[c].order.createdAt])
                    ELSE calls[c].input.filePath]]
  /\ UNCHANGED <<produits, purchaseOrders, purchaseOrderItems, nextOrderId,
                 nextItemId, now, unlinkedPaths, outside, response>>

\* stream 'finish': the request has written its last byte and goes on.  The
\* file is complete once no other stream is open on it; a stream whose file
\* was unlinked has written to a file no path names.
streamFinish(c) ==
  /\ calls[c].pc = "writing"
  /\ LET path == calls[c].input.filePath IN
     /\ files' = IF calls[c].linked
                   THEN (path :> IF otherWriters(c, path) = {}
                                   THEN generateCommandePdf(calls[c].input, calls[c].drawnAt)
                                   ELSE IncompleteFile) @@ files
                   ELSE files
     /\ response' =
          IF calls[c].op = "createOrder"
            THEN Answer("createOrder", 200, "", calls[c].value)
          ELSE IF ~ existsSync(path, files)
            THEN Answer("resolveOrderFilePath", 404, "Order file not found", None)
          ELSE Answer("resolveOrderFilePath", 200, "", calls[c].value)
  /\ Return(c)
  /\ UNCHANGED <<produits, purchaseOrders, purchaseOrderItems, nextOrderId,
                 nextItemId, now, unlinkedPaths, outside>>

\* A variant in which a createOrder call whose stream fails takes its header back
keptOnStreamErrorRolledBack(c, orders) ==
  {o \in orders :
     calls[c].op = "createOrder" =>
       o.id # (IF calls[c].pc = "writing" THEN calls[c].orderId ELSE calls[c].order.id)}

\* The headers after the promise of generateCommandePdf rejects: no caller
\* catches the rejection, and nothing is undone
keptOnStreamError(c, orders) == orders

\* stream 'error': the promise rejects and the request ends as a server error
streamError(c) ==
  /\ calls[c].pc \in {"openStream", "writing"}
  /\ response' = Answer(calls[c].op, 500, "write stream error", None)
  /\ Return(c)
  /\ purchaseOrders' = keptOnStreamError(c, purchaseOrders)
  /\ UNCHANGED <<produits, purchaseOrderItems, nextOrderId, nextItemId, files, now,
                 unlinkedPaths, outside>>

\* deleteOrder up to its delete: the role check, the read, the restaurant check
beginDeleteOrder(c, orderId, actor) ==
  /\ Free(c)
  /\ LET rejection == orderAccessRejection(orderId, actor) IN
     IF rejection # None
       THEN /\ response' = Answer("deleteOrder", rejection[1].status,
                                  rejection[1].message, None)
            /\ calls' = calls
       ELSE /\ calls' = [calls EXCEPT ![c] =
                 [op |-> "deleteOrder", pc |-> "deleteHeader", actor |-> actor,
                  orderId |-> orderId,
                  bonFileName |-> (CHOOSE o \in findOrder(orderId) : TRUE).bonFileName]]
            /\ response' = response
  /\ UNCHANGED <<produits, purchaseOrders, purchaseOrderItems, nextOrderId,
                 nextItemId, files, now, unlinkedPaths, outside>>

\* prisma.purchaseOrder.delete({ where: { id } }); it throws when the row is gone
deleteHeader(c) ==
  /\ calls[c].op = "deleteOrder" /\ calls[c].pc = "deleteHeader"
  /\ IF findOrder(calls[c].orderId) = {}
       THEN /\ response' = Answer("deleteOrder", 500, "Record to delete does not exist", None)
            /\ Return(c)
            /\ UNCHANGED <<purchaseOrders, purchaseOrderItems>>
       ELSE /\ purchaseOrders' = deleteWhere(calls[c].orderId)
            /\ purchaseOrderItems' = deleteCascade(calls[c].orderId)
            /\ calls' = [calls EXCEPT ![c].pc = "unlink"]
            /\ response' = response
  /\ UNCHANGED <<produits, nextOrderId, nextItemId, files, now, unlinkedPaths,
                 outside>>

\* existsSync, unlinkSync in its try, and the return of deleteOrder
unlinkFile(c) ==
  /\ calls[c].op = "deleteOrder" /\ calls[c].pc = "unlink"
  /\ LET filePath == join(ordersDir, calls[c].bonFileName) IN
     \E unlinked \in BOOLEAN :
       IF existsSync(filePath, files) /\ unlinked
         THEN /\ files' = [f \in DOMAIN files \ {filePath} |-> files[f]]
              /\ unlinkedPaths' = unlinkedPaths \cup {filePath}
              /\ calls' = [d \in Slots |->
                   IF d = c THEN Idle
                   ELSE IF calls[d].pc = "writing" /\ calls[d].input.filePath = filePath
                     THEN [calls[d] EXCEPT !.linked = FALSE]
                   ELSE calls[d]]
         ELSE /\ UNCHANGED <<files, unlinkedPaths>>
              /\ Return(c)
  /\ response' = Answer("deleteOrder", 200, "", Some(calls[c].orderId))
  /\ UNCHANGED <<produits, purchaseOrders, purchaseOrderItems, nextOrderId,
                 nextItemId, now, outside>>

\* The server process stops and starts again: the requests in flight are
\* gone, no answer is sent, and what they wrote stays
interrupt ==
  /\ \E c \in Slots : calls[c] # Idle
  /\ calls' = [c \in Slots |-> Idle]
  /\ purchaseOrders' = committed(purchaseOrders)
  /\ UNCHANGED <<produits, purchaseOrderItems, nextOrderId, nextItemId, files, now,
                 unlinkedPaths, outside, response>>

\* One request at a time, step by step, with interrupts
NextSteps ==
  \/ \E c \in {1}, request \in StepRequests :
       beginCreateOrder(c, request.actor, request.payload)
  \/ \E c \in Slots : insertHeader(c)
  \/ \E c \in Slots : updateHeader(c)
  \/ \E c \in Slots : createItems(c)
  \/ \E c \in {1}, orderId \in OrderIdInputs, actor \in StepActors :
       beginResolveOrderFilePath(c, orderId, actor)
  \/ \E c \in Slots : createWriteStream(c)
  \/ \E c \in Slots : streamFinish(c)
  \/ \E c \in Slots : streamError(c)
  \/ \E c \in {1}, orderId \in OrderIdInputs, actor \in StepActors :
       beginDeleteOrder(c, orderId, actor)
  \/ \E c \in Slots : deleteHeader(c)
  \/ \E c \in Slots : unlinkFile(c)
  \/ \E actor \in StepActors : listOrders(actor)
  \/ \E productId \in {1}, payload \in StepProductPayloads :
       updateProduct(productId, payload)
  \/ interrupt

SpecSteps == Init /\ [][NextSteps]_vars

\* Retrievals and deletions in flight together, on orders that were created
\* with no other request in flight
NextConcurrent ==
  \/ \E request \in StepRequests : createOrder(request.actor, request.payload)
  \/ \E c \in Slots, orderId \in OrderIdInputs, actor \in StepActors :
       beginResolveOrderFilePath(c, orderId, actor)
  \/ \E c \in Slots : createWriteStream(c)
  \/ \E c \in Slots : streamFinish(c)
  \/ \E c \in Slots : streamError(c)
  \/ \E c \in Slots, orderId \in OrderIdInputs, actor \in StepActors :
       beginDeleteOrder(c, orderId, actor)
  \/ \E c \in Slots : deleteHeader(c)
  \/ \E c \in Slots : unlinkFile(c)

SpecConcurrent == Init /\ [][NextConcurrent]_vars

-----------------------------------------------------------------------------
(* Properties of order creation *)

\* C1: every createOrder call that persists an order (all successful calls do)
\* stores totalAmount = the sum over the submitted lines of the catalog price
\* at submission (0 when the catalog has no price) times the quantity, and
\* totalItems = the sum of the quantities; every stored item of the order has
\* lineTotal = unitPriceHt * quantity, and a successful call answers the same
\* two totals.
C1_TotalsFromCatalog ==
  [][response'.op = "createOrder" => \A request \in CreateOrderRequests :
       (createOrder(request.actor, request.payload) /\ purchaseOrders' # purchaseOrders) =>
         LET lines == request.payload.items[1]
             catalogPrice(id) ==
               IF produits[id].prixUHt = None THEN 0 ELSE produits[id].prixUHt[1]
             amounts == [i \in 1..Len(lines) |->
                           [v |-> catalogPrice(lines[i].productId)
                                    * (lines[i].quantity.num \div lines[i].quantity.den)]]
             quantities == [i \in 1..Len(lines) |->
                              [v |-> lines[i].quantity.num \div lines[i].quantity.den]]
             order == CHOOSE o \in purchaseOrders' \ purchaseOrders : TRUE
         IN /\ Cardinality(purchaseOrders' \ purchaseOrders) = 1
            /\ order.totalAmount = SumOf(amounts, "v")
            /\ order.totalItems = SumOf(quantities, "v")
            /\ Cardinality({i \in purchaseOrderItems' : i.purchaseOrderId = order.id})
                 = Len(lines)
            /\ \A i \in purchaseOrderItems' :
                 i.purchaseOrderId = order.id => i.lineTotal = i.unitPriceHt * i.quantity
            /\ response'.status = 200 =>
                 /\ response'.value[1].totalAmount = order.totalAmount
                 /\ response'.value[1].totalItems = order.totalItems]_vars

\* C1 witness: a successful createOrder has stored a two-line order of 1 x 2.50
\* and 3 x a product without catalog price
C1_Witness ==
  /\ response.op = "createOrder"
  /\ response.status = 200
  /\ \E o \in purchaseOrders :
       /\ o.id = response.value[1].id
       /\ o.totalItems = 4
       /\ o.totalAmount = 250
       /\ \E i \in purchaseOrderItems :
            i.purchaseOrderId = o.id /\ i.unitPriceHt = 0 /\ i.quantity = 3

\* C2: a createOrder call whose items reference products of two or more
\* suppliers is answered with a client error (HTTP 4xx), and the stored orders
\* and order items after the call are those before it.
C2_MixedSuppliersRejected ==
  [][response'.op = "createOrder" => \A request \in CreateOrderRequests :
       LET lines == IF request.payload.items = None THEN <<>>
                    ELSE request.payload.items[1]
           suppliers == {produits[lines[i].productId].supplierId :
                           i \in {j \in 1..Len(lines) : lines[j].productId \in DOMAIN produits}}
       IN (createOrder(request.actor, request.payload) /\ Cardinality(suppliers) >= 2) =>
            /\ response'.status \in 400..499
            /\ purchaseOrders' = purchaseOrders
            /\ purchaseOrderItems' = purchaseOrderItems]_vars

\* C2 witness: with an order stored, a call mixing two suppliers has been refused
C2_Witness ==
  /\ response.op = "createOrder"
  /\ response.status = 400
  /\ response.message = "Order must include products from one supplier only"
  /\ purchaseOrders # {}

\* C3: a createOrder call in which some item has quantity 0, a negative or a
\* non-integer quantity is answered with a client error (HTTP 4xx) and has
\* written nothing: no header, no item, no id consumed.
C3_BadQuantityRejected ==
  [][response'.op = "createOrder" => \A request \in CreateOrderRequests :
       LET lines == IF request.payload.items = None THEN <<>>
                    ELSE request.payload.items[1]
       IN (/\ createOrder(request.actor, request.payload)
           /\ \E i \in 1..Len(lines) :
                \/ lines[i].quantity.num * lines[i].quantity.den <= 0
                \/ (lines[i].quantity.num \div lines[i].quantity.den) * lines[i].quantity.den
                     # lines[i].quantity.num) =>
            /\ response'.status \in 400..499
            /\ UNCHANGED <<purchaseOrders, purchaseOrderItems, nextOrderId, nextItemId>>]_vars

\* C3 witness: with an order stored, a call with a bad quantity has been refused
C3_Witness ==
  /\ response.op = "createOrder"
  /\ response.status = 400
  /\ response.message = "Item quantity must be a positive integer"
  /\ purchaseOrders # {}

\* C4: createOrder refuses the delivery dates "2025/01/01" (not YYYY-MM-DD) and
\* "2025-13-40" (month and day out of range) with a client error and stores no
\* order for them; an actor allowed to order gets status 400 and one of the two
\* date messages. It does not refuse "2025-01-01": no answer to that date is a
\* date message, and the order stored for it is due on 2025-01-01 (day 20089
\* of the epoch, 00:00 UTC).
C4_DeliveryDateChecked ==
  [][response'.op = "createOrder" => \A request \in CreateOrderRequests :
       LET raw == request.payload.deliveryDate
           dateMessages == {"deliveryDate must match YYYY-MM-DD", "deliveryDate is invalid"}
       IN createOrder(request.actor, request.payload) =>
            /\ raw \in { T(<<"2","0","2","5","/","0","1","/","0","1">>),
                          T(<<"2","0","2","5","-","1","3","-","4","0">>) } =>
                 /\ response'.status \in 400..499
                 /\ UNCHANGED <<purchaseOrders, purchaseOrderItems>>
                 /\ (request.actor.role \in {"ADMIN", "MANAGER"}
                       /\ request.actor.restaurantId # None) =>
                      response'.status = 400 /\ response'.message \in dateMessages
            /\ raw = T(<<"2","0","2","5","-","0","1","-","0","1">>) =>
                 /\ response'.message \notin dateMessages
                 /\ \A o \in purchaseOrders' \ purchaseOrders :
                      o.deliveryDate = [day |-> 20089, ms |-> 0]]_vars

\* C4 witness: an order due on 2025-01-01 is stored, and a later call with an
\* out-of-range date has been refused
C4_Witness ==
  /\ response.op = "createOrder"
  /\ response.message = "deliveryDate is invalid"
  /\ \E o \in purchaseOrders : toISODate(o.deliveryDate) = T(<<"2","0","2","5","-","0","1","-","0","1">>)

-----------------------------------------------------------------------------
(* Properties of access control *)

\* C5: a MANAGER's resolveOrderFilePath succeeds only for a stored order whose
\* restaurantId is the actor's; for a stored order of another restaurant the
\* answer is 403 without a path, and no file is written.
C5_ManagerOwnRestaurantOnly ==
  [][response'.op = "resolveOrderFilePath" =>
       \A orderId \in OrderIdInputs, actor \in Actors :
         (resolveOrderFilePath(orderId, actor) /\ actor.role = "MANAGER") =>
           /\ response'.status = 200 =>
                \E o \in purchaseOrders :
                  o.id = orderId /\ actor.restaurantId = <<o.restaurantId>>
           /\ (\E o \in purchaseOrders :
                  o.id = orderId /\ actor.restaurantId # <<o.restaurantId>>) =>
                /\ response'.status = 403
                /\ response'.value = None
                /\ files' = files]_vars

\* C5 witness: a retrieval of another restaurant's order has been refused
C5_Witness ==
  /\ response.op = "resolveOrderFilePath"
  /\ response.status = 403
  /\ response.message = "Order does not belong to your restaurant"

\* C6: createOrder, listOrders, resolveOrderFilePath and deleteOrder answer 403
\* to an actor whose role is neither ADMIN nor MANAGER, whatever the other
\* inputs and the stored data, and change nothing.
C6_OtherRolesForbidden ==
  [][\A actor \in {a \in Actors : a.role \notin {"ADMIN", "MANAGER"}} :
       ( \/ \E request \in CreateOrderRequests :
              request.actor = actor /\ createOrder(actor, request.payload)
         \/ listOrders(actor)
         \/ \E orderId \in OrderIdInputs : resolveOrderFilePath(orderId, actor)
         \/ \E orderId \in OrderIdInputs : deleteOrder(orderId, actor) ) =>
         /\ response'.status = 403
         /\ UNCHANGED <<purchaseOrders, purchaseOrderItems, files>>]_vars

\* C6 witness: with an order stored, a deleteOrder by an EMPLOYEE has been refused
C6_Witness ==
  /\ response.op = "deleteOrder"
  /\ response.status = 403
  /\ response.message = "Only ADMIN and MANAGER can access orders"
  /\ purchaseOrders # {}

\* C7: a successful deleteOrder removes the order, whether or not its file was
\* on disk; an id once given and no longer stored never comes back; and a
\* listing holds stored orders only. So no listing after the deletion shows
\* the order.
C7_DeletedOrderNeverListed ==
  [][/\ \A orderId \in OrderIdInputs, actor \in Actors :
          (deleteOrder(orderId, actor) /\ response'.status = 200) =>
            \A o \in purchaseOrders' : o.id # orderId
     /\ \A id \in 1..(nextOrderId - 1) :
          (\A o \in purchaseOrders : o.id # id) => (\A o \in purchaseOrders' : o.id # id)
     /\ (response'.op = "listOrders" /\ response'.status = 200) =>
          \A i \in 1..Len(response'.value) :
            \E o \in purchaseOrders' : o.id = response'.value[i].id]_vars

\* C7 witness: the one order given so far has been deleted, no file of it is on
\* disk, and a listing since then is empty
C7_Witness ==
  /\ response.op = "listOrders"
  /\ response.status = 200
  /\ response.value = <<>>
  /\ nextOrderId = 2
  /\ purchaseOrders = {}
  /\ DOMAIN files = {}

-----------------------------------------------------------------------------
(* Properties of the regenerated document *)

\* C8 (as the specification states it): whatever was done to the catalog since
\* the order's document was last written, a retrieval that regenerates it
\* draws the same table (names, units, quantities, unit prices) again. The code
\* reads the names and the unit from the live catalog, so this does not hold
\* once the product has been edited.
C8_CatalogEditKeepsDocument ==
  [][response'.op = "resolveOrderFilePath" =>
       \A orderId \in OrderIdInputs, actor \in Actors :
         (/\ resolveOrderFilePath(orderId, actor)
          /\ response'.status = 200
          /\ response'.value \in DOMAIN files) =>
           files'[response'.value].rows = files[response'.value].rows]_vars

\* C8 witness: a retrieval has written a document whose first row carries a
\* French name and a unit that differ from the snapshot of the order's first item
C8_Witness ==
  /\ response.op = "resolveOrderFilePath"
  /\ response.status = 200
  /\ \E o \in purchaseOrders, i \in purchaseOrderItems :
       /\ join(ordersDir, o.bonFileName) = response.value
       /\ i.purchaseOrderId = o.id
       /\ \A other \in purchaseOrderItems : other.purchaseOrderId = o.id => i.id <= other.id
       /\ i.nameFr = T(<<"R","i","z"," ","8","K","G">>)
       /\ i.unit = T(<<"k","g">>)
       /\ files[response.value].rows[1].productNameFr = T(<<"P","a","t","e","s">>)
       /\ files[response.value].rows[1].orderUnit = T(<<"s","a","c">>)

C10_ValidationFailureWritesNothing ==
  [][response'.op = "createOrder" => \A request \in CreateOrderRequests :
       LET actor == request.actor
           lines == IF request.payload.items = None THEN <<>>
                    ELSE request.payload.items[1]
           failing ==
             \/ request.payload.deliveryDate
                  \in { <<>>, T(<<"2","0","2","5","/","0","1","/","0","1">>),
                        T(<<"2","0","2","5","-","1","3","-","4","0">>) }
             \/ Len(lines) = 0
             \/ \E i \in 1..Len(lines) : lines[i].productId \notin DOMAIN produits
             \/ (actor.role = "MANAGER" /\ actor.restaurantId = None)
       IN createOrder(actor, request.payload) =>
            /\ failing => response'.status \in 400..499
            /\ (failing /\ actor.role \in {"ADMIN", "MANAGER"}) => response'.status = 400
            /\ response'.status \in 400..499 =>
                 UNCHANGED <<purchaseOrders, purchaseOrderItems, nextOrderId,
                             nextItemId, files>>]_vars

\* C10 witness: with an order stored, a call naming a product that is not in the
\* catalog has been refused
C10_Witness ==
  /\ response.op = "createOrder"
  /\ response.status = 400
  /\ response.message = "Some selected products do not exist"
  /\ purchaseOrders # {}

-----------------------------------------------------------------------------
(* Properties of the stored orders *)

\* C11: in every reachable state each stored item belongs to a stored order and
\* carries that order's supplierId, so all items of an order share one supplier.
C11_ItemsShareHeaderSupplier ==
  \A i \in purchaseOrderItems :
    /\ \E o \in purchaseOrders : o.id = i.purchaseOrderId
    /\ \A o \in purchaseOrders : o.id = i.purchaseOrderId => i.supplierId = o.supplierId

\* C11 witness: an order with two items of two products is stored
C11_Witness ==
  \E o \in purchaseOrders :
    \E i, j \in purchaseOrderItems :
      /\ i.purchaseOrderId = o.id /\ j.purchaseOrderId = o.id
      /\ i.productId # j.productId
      /\ i.supplierId = j.supplierId

C13_ListingScopedToRestaurant ==
  [][response'.op = "listOrders" =>
       \A actor \in {a \in Actors : a.role \in {"ADMIN", "MANAGER"}} :
         listOrders(actor) =>
           LET expected == IF actor.role = "ADMIN" THEN purchaseOrders
                           ELSE {o \in purchaseOrders : actor.restaurantId = <<o.restaurantId>>}
               listed == response'.value
           IN /\ response'.status = 200
              /\ Len(listed) = Cardinality(expected)
              /\ {[id |-> listed[i].id, number |-> listed[i].number] : i \in 1..Len(listed)}
                   = {[id |-> o.id, number |-> o.number] : o \in expected}]_vars

\* C13 witness: a listing is empty while an order of another restaurant is stored
C13_Witness ==
  /\ response.op = "listOrders"
  /\ response.status = 200
  /\ response.value = <<>>
  /\ purchaseOrders # {}

\* C15: a deleteOrder by an actor allowed to delete the stored order answers
\* 200, leaves every other header and item and removes the header and all its
\* items; the file of the order is then either gone or, when it could not be
\* removed, still there, with the same answer and the same rows deleted.
C15_DeleteCascadesBestEffortFile ==
  [][response'.op = "deleteOrder" =>
       \A orderId \in OrderIdInputs, actor \in Actors :
         \A o \in {x \in purchaseOrders : x.id = orderId} :
           (/\ deleteOrder(orderId, actor)
            /\ (actor.role = "ADMIN"
                  \/ (actor.role = "MANAGER" /\ actor.restaurantId = <<o.restaurantId>>))) =>
             LET path == join(ordersDir, o.bonFileName)
             IN /\ response'.status = 200
                /\ purchaseOrders' = {x \in purchaseOrders : x.id # orderId}
                /\ purchaseOrderItems'
                     = {i \in purchaseOrderItems : i.purchaseOrderId # orderId}
                /\ \/ files' = files
                   \/ /\ path \in DOMAIN files
                      /\ files' = [f \in DOMAIN files \ {path} |-> files[f]]]_vars

\* C15 witness: a deleteOrder has answered 200 and left no header and no item,
\* while the file of the order could not be removed and is still on disk
C15_Witness ==
  /\ response.op = "deleteOrder"
  /\ response.status = 200
  /\ purchaseOrders = {}
  /\ purchaseOrderItems = {}
  /\ DOMAIN files # {}

-----------------------------------------------------------------------------
(* Properties of the document *)

\* C16 (as the specification states it): every file written by createOrder or by
\* a retrieval has a totals block. generateCommandePdf draws the decorations,
\* the header, the meta card, the table and the footer, and never the totals.
C16_EveryDocumentHasTotals ==
  \A p \in DOMAIN files :
    /\ \E i \in 1..Len(files[p].blocks) : files[p].blocks[i] = "header"
    /\ \E i \in 1..Len(files[p].blocks) : files[p].blocks[i] = "meta"
    /\ \E i \in 1..Len(files[p].blocks) : files[p].blocks[i] = "table"
    /\ \E i \in 1..Len(files[p].blocks) : files[p].blocks[i] = "totals"

\* C16 witness: createOrder has written a document with a header, a meta card
\* and a table
C16_Witness ==
  /\ response.op = "createOrder"
  /\ response.status = 200
  /\ \E p \in DOMAIN files :
       /\ files[p].header.numero = response.value[1].number
       /\ files[p].blocks = <<"decorations", "header", "meta", "table", "footer">>

-----------------------------------------------------------------------------
(* Properties of the delivery date *)

\* C17 (as the specification states it): a createOrder call whose delivery date
\* has the shape YYYY-MM-DD but names a day its month does not have is answered
\* with a client error and stores nothing, and an order that is stored has the
\* submitted date as its deliveryDate. Date parsing takes every day up to 31
\* in every month and carries the excess into the next month, so this does
\* not hold for "2025-02-30" and "2025-04-31".
C17_OnlyCalendarDatesAccepted ==
  [][response'.op = "createOrder" => \A request \in CalendarRequests :
       LET raw == request.payload.deliveryDate
           year == parseDigits(SubSeq(raw, 1, 4), 0)
           month == parseDigits(SubSeq(raw, 6, 7), 0)
           day == parseDigits(SubSeq(raw, 9, 10), 0)
           onCalendar == /\ month \in 1..12
                         /\ day >= 1
                         /\ day <= DaysInMonth(year, month)
       IN createOrder(request.actor, request.payload) =>
            /\ ~ onCalendar =>
                 /\ response'.status \in 400..499
                 /\ UNCHANGED <<purchaseOrders, purchaseOrderItems>>
            /\ \A o \in purchaseOrders' \ purchaseOrders :
                 toISODate(o.deliveryDate) = raw]_vars

\* C17 witness: createOrder has answered 200 to the delivery date "2025-02-30"
\* and the order is stored as due on 2025-03-02
C17_Witness ==
  /\ response.op = "createOrder"
  /\ response.status = 200
  /\ response.value[1].deliveryDate = T(<<"2","0","2","5","-","0","2","-","3","0">>)
  /\ \E o \in purchaseOrders :
       /\ o.id = response.value[1].id
       /\ toISODate(o.deliveryDate) = T(<<"2","0","2","5","-","0","3","-","0","2">>)

-----------------------------------------------------------------------------
(* Properties of the requests in flight *)

\* C14: a retrieval by an actor allowed to manage orders is answered 404
\* "Order not found" at once when no order with the id is persisted (never
\* created, or deleted); when the order is the actor's it goes on to
\* regenerate the file, and once the stream has finished it is answered 404
\* "Order file not found" if no file is at the path, and otherwise 200 with
\* the path ordersDir/commande-<number>.pdf of the order.  The one other way
\* such a retrieval ends is the server error of a failed stream.
C14_NotFoundOrPath ==
  [][\A c \in Slots :
       /\ \A orderId \in OrderIdInputs, actor \in StepActors :
            beginResolveOrderFilePath(c, orderId, actor) =>
              IF \A o \in purchaseOrders : o.id # orderId
                THEN /\ response'.op = "resolveOrderFilePath"
                     /\ response'.status = 404
                     /\ response'.message = "Order not found"
                     /\ calls' = calls
                ELSE /\ calls'[c].op = "resolveOrderFilePath"
                     /\ response' = response
       /\ (calls[c].op = "resolveOrderFilePath" /\ calls'[c] = Idle) =>
            /\ response'.op = "resolveOrderFilePath"
            /\ response'.status \in {200, 404, 500}
            /\ response'.status = 500 => streamError(c)
            /\ response'.status # 500 =>
                 LET fullPath ==
                       join(ordersDir, orderFileNameOf(
                         buildOrderNumber(calls[c].orderId, currentTimestamp(StartTime))))
                 IN IF fullPath \in DOMAIN files'
                      THEN response'.status = 200 /\ response'.value = fullPath
                      ELSE /\ response'.status = 404
                           /\ response'.message = "Order file not found"]_vars

\* C14 witness: a retrieval has regenerated the file of an order that was
\* deleted, file and all, while it was writing, and is answered
\* "Order file not found"
C14_Witness ==
  /\ response.op = "resolveOrderFilePath"
  /\ response.status = 404
  /\ response.message = "Order file not found"
  /\ purchaseOrders = {}
  /\ nextOrderId > 1

\* C18: a createOrder call that completes has written the header exactly
\* twice, in its insert (placeholder number and file name) and in its one
\* update (final number and file name), and at no other step; the header and
\* the line items of an order change in no step other than those of the
\* createOrder call that is creating it and the delete of a deleteOrder call:
\* listOrders, every step of a retrieval, and catalog updates leave them as
\* they are.
C18_HeaderWrittenTwiceThenFrozen ==
  [][/\ \A c \in Slots :
          /\ (calls[c].op = "createOrder" /\ streamFinish(c)) =>
               /\ calls[c].headerWrites = 2
               /\ \E o \in purchaseOrders :
                    /\ o.id = calls[c].orderId
                    /\ o.number = buildOrderNumber(o.id, o.createdAt)
                    /\ o.bonFileName = orderFileNameOf(o.number)
          /\ (calls[c].op = "createOrder" /\ purchaseOrders' # purchaseOrders) =>
               /\ calls[c].pc \in {"insertHeader", "updateHeader"}
               /\ calls[c].pc = "insertHeader" =>
                    \E o \in purchaseOrders' :
                      /\ purchaseOrders' = purchaseOrders \cup {o}
                      /\ o.id = nextOrderId
                      /\ o.bonFileName = T(<<"p","e","n","d","i","n","g",".","p","d","f">>)
                      /\ SubSeq(o.number, 1, 7) = T(<<"P","O","-","T","M","P","-">>)
               /\ calls[c].pc = "updateHeader" =>
                    \E o \in purchaseOrders :
                      /\ o.id = calls[c].order.id
                      /\ purchaseOrders' = (purchaseOrders \ {o}) \cup
                           {[o EXCEPT !.number = buildOrderNumber(o.id, o.createdAt),
                                      !.bonFileName = orderFileNameOf(
                                         buildOrderNumber(o.id, o.createdAt))]}
          /\ (calls[c].op = "createOrder" /\ purchaseOrderItems' # purchaseOrderItems) =>
               /\ calls[c].pc = "createItems"
               /\ \A i \in purchaseOrderItems : i \in purchaseOrderItems'
               /\ \A i \in purchaseOrderItems' \ purchaseOrderItems :
                    i.purchaseOrderId = calls[c].order.id
     /\ <<purchaseOrders, purchaseOrderItems>>' # <<purchaseOrders, purchaseOrderItems>> =>
          \E c \in Slots :
            \/ calls[c].op = "createOrder"
            \/ calls[c].op = "deleteOrder" /\ deleteHeader(c)
     /\ ( \/ response'.op = "listOrders" /\ \E actor \in StepActors : listOrders(actor)
          \/ /\ response'.op = "updateProduct"
             /\ \E payload \in StepProductPayloads : updateProduct(1, payload)
          \/ \E c \in Slots : calls[c].op = "resolveOrderFilePath"
          \/ \E c \in Slots, orderId \in OrderIdInputs, actor \in StepActors :
               beginResolveOrderFilePath(c, orderId, actor) ) =>
          UNCHANGED <<purchaseOrders, purchaseOrderItems>>]_vars

\* C18 witness: after its createOrder completed, an order has been through a
\* catalog edit of its product and a retrieval that regenerated its file, and
\* its header and its line item are as createOrder wrote them
C18_Witness ==
  /\ response.op = "resolveOrderFilePath"
  /\ response.status = 200
  /\ produits # InitialProduits
  /\ \E o \in purchaseOrders :
       /\ o.number = buildOrderNumber(o.id, o.createdAt)
       /\ join(ordersDir, o.bonFileName) = response.value
       /\ \E i \in purchaseOrderItems :
            /\ i.purchaseOrderId = o.id
            /\ i.nameFr = InitialProduits[i.productId].designationFr
            /\ i.unitPriceHt = priceOf(InitialProduits[i.productId])

\* C19: when the server is interrupted while a createOrder call has inserted
\* its header and not yet updated it, the order stays persisted with its
\* placeholder number "PO-TMP-<ms>", the file name "pending.pdf" and no line
\* items; from then on listOrders returns it to those who may see it, with
\* that number, and no step changes it or gives it line items: it is there
\* until a deleteOrder call for its id deletes it.
C19_InterruptedOrderStaysPlaceholder ==
  [][LET placeholder(o) ==
           /\ SubSeq(o.number, 1, 7) = T(<<"P","O","-","T","M","P","-">>)
           /\ o.bonFileName = T(<<"p","e","n","d","i","n","g",".","p","d","f">>)
         abandoned(o) ==
           /\ placeholder(o)
           /\ \A c \in Slots : calls[c].op = "createOrder" /\ calls[c].pc = "updateHeader"
                                 => calls[c].order.id # o.id
     IN /\ \A c \in Slots :
             (calls[c].op = "createOrder" /\ calls[c].pc = "updateHeader"
                /\ calls'[c].pc = "idle") =>
                 /\ \E o \in purchaseOrders' : o.id = calls[c].order.id /\ placeholder(o)
                 /\ \A i \in purchaseOrderItems' : i.purchaseOrderId # calls[c].order.id
        /\ \A o \in purchaseOrders :
             abandoned(o) =>
               /\ \A i \in purchaseOrderItems' : i.purchaseOrderId # o.id
               /\ \/ o \in purchaseOrders'
                  \/ \E c \in Slots : /\ calls[c].op = "deleteOrder"
                                      /\ calls[c].orderId = o.id
                                      /\ deleteHeader(c)
               /\ \A p \in purchaseOrders' : p.id = o.id => p = o
               /\ (response'.op = "listOrders" /\ response'.status = 200
                     /\ \E actor \in StepActors : listOrders(actor)) =>
                    \E k \in 1..Len(response'.value) :
                      /\ response'.value[k].id = o.id
                      /\ response'.value[k].number = o.number]_vars

\* C19 witness: no request is in flight, and listOrders has just returned an
\* order that is persisted with a placeholder number, "pending.pdf" and no
\* line items
C19_Witness ==
  /\ \A c \in Slots : calls[c] = Idle
  /\ response.op = "listOrders"
  /\ response.status = 200
  /\ \E o \in purchaseOrders :
       /\ SubSeq(o.number, 1, 7) = T(<<"P","O","-","T","M","P","-">>)
       /\ o.bonFileName = T(<<"p","e","n","d","i","n","g",".","p","d","f">>)
       /\ \A i \in purchaseOrderItems : i.purchaseOrderId # o.id
       /\ \E k \in 1..Len(response.value) : response.value[k].number = o.number

\* C20: retrievals do not exclude one another.  A request that is about to
\* open its stream can always open it, whatever streams are open on the same
\* path.  And a retrieval whose stream finishes while another request is still
\* writing the same path is answered 200 with that path, the file being
\* incomplete and the other request still writing.
C20_RetrievalsNotExclusive ==
  /\ [](\A c \in Slots :
          calls[c].pc = "openStream" => ENABLED createWriteStream(c))
  /\ [][\A c \in Slots :
          (calls[c].op = "resolveOrderFilePath" /\ calls[c].pc = "writing"
             /\ calls[c].linked /\ otherWriters(c, calls[c].input.filePath) # {}
             /\ calls'[c].pc = "idle" /\ response'.status # 500) =>
            /\ response'.op = "resolveOrderFilePath"
            /\ response'.status = 200
            /\ response'.value = calls[c].input.filePath
            /\ files'[response'.value] = IncompleteFile
            /\ \A d \in otherWriters(c, calls[c].input.filePath) :
                 calls'[d].pc = "writing"]_vars

\* C20 witness: two retrievals of one order are writing the same path at the
\* same time, and the last answer the server gave is a retrieval's 200 with
\* that path
C20_Witness ==
  \E c, d \in Slots :
    /\ c # d
    /\ calls[c].op = "resolveOrderFilePath" /\ calls[c].pc = "writing"
    /\ calls[d].op = "resolveOrderFilePath" /\ calls[d].pc = "writing"
    /\ calls[c].orderId = calls[d].orderId
    /\ calls[c].input.filePath = calls[d].input.filePath
    /\ calls[c].linked /\ calls[d].linked
    /\ files[calls[c].input.filePath] = IncompleteFile
    /\ response.op = "resolveOrderFilePath"
    /\ response.status = 200
    /\ response.value = calls[c].input.filePath

-----------------------------------------------------------------------------
(* The item table, row by row.  Lengths are in thousandths of a point.  The *)
(* document under drawing is a record [pages, y]: what has been drawn on    *)
(* each page, in drawing order, and the cursor doc.y.                       *)

\* The lines the model lets one order have
MaxRows == 30

\* doc.page.height of the default page (LETTER)
pageHeight == 792000

\* new PDFDocument({ margin: 36 })
pageMargin == 36000

rowHeight == 36000

\* doc.page.height - doc.page.margins.bottom - 90
bottomLimit == pageHeight - pageMargin - 90000

\* currentLineHeight(true) of Helvetica at a font size
lineHeight(fontSize) == 1156 * fontSize

\* doc.y when drawItemsTable starts: drawHeader leaves it one line under
\* titleY + 20 and moves down 2.8 lines, drawOrderMeta sets it to blockY + 86
tableTop ==
  (pageMargin + 20000 + lineHeight(10) + (28 * lineHeight(10)) \div 10) + 86000

drawHeaderRow(doc) ==
  [pages |-> [doc.pages EXCEPT ![Len(doc.pages)] =
                Append(@, [kind |-> "headerRow", y |-> doc.y])],
   y |-> doc.y + rowHeight]

\* doc.addPage(), then this.drawRandomDecorations(doc)
addPage(doc) ==
  [pages |-> Append(doc.pages, << [kind |-> "decorations"] >>), y |-> pageMargin]

\* A variant that never starts a page
ensureSpaceNever(doc, requiredHeight) == [pages |-> doc.pages, y |-> doc.y]

ensureSpace(doc, requiredHeight) ==
  IF doc.y + requiredHeight > bottomLimit THEN drawHeaderRow(addPage(doc)) ELSE doc

\* One turn of input.items.forEach((item, index) => ...)
drawItem(doc, item, index) ==
  LET placed == ensureSpace(doc, rowHeight)
  IN [pages |-> [placed.pages EXCEPT ![Len(placed.pages)] =
                   Append(@, [kind |-> "row", y |-> placed.y, index |-> index,
                              shaded |-> index % 2 = 1, texts |-> drawRow(item)])],
      y |-> placed.y + rowHeight]

\* An order of n lines by the manager of restaurant 1: line i asks for i units,
\* of product 1 and product 2 in turn
TablePayload(n) ==
  [deliveryDate |-> ValidDateInput,
   items |-> Some([i \in 1..n |-> Line(IF i % 2 = 1 THEN 1 ELSE 2, Q(i, 1))])]

\* The first order of the table
createFirstOrder(n) ==
  /\ purchaseOrders = {}
  /\ nextOrderId = 1
  /\ \E actor \in StepActors : createOrder(actor, TablePayload(n))

\* drawItemsTable of a retrieval up to its first header row
beginItemsTable(c) ==
  /\ calls[c].op = "resolveOrderFilePath" /\ calls[c].pc = "openStream"
  /\ calls' = [calls EXCEPT ![c] =
       [op |-> calls[c].op, pc |-> "table", orderId |-> calls[c].orderId,
        input |-> calls[c].input, index |-> 0,
        doc |-> drawHeaderRow([pages |-> << <<>> >>, y |-> tableTop])]]
  /\ UNCHANGED <<produits, purchaseOrders, purchaseOrderItems, nextOrderId,
                 nextItemId, files, now, unlinkedPaths, outside, response>>

drawNextItem(c) ==
  /\ calls[c].pc = "table"
  /\ calls[c].index < Len(calls[c].input.items)
  /\ calls' = [calls EXCEPT
       ![c].doc = drawItem(@, calls[c].input.items[calls[c].index + 1], calls[c].index),
       ![c].index = @ + 1]
  /\ UNCHANGED <<produits, purchaseOrders, purchaseOrderItems, nextOrderId,
                 nextItemId, files, now, unlinkedPaths, outside, response>>

\* doc.moveDown(0.8) after the last item
endItemsTable(c) ==
  /\ calls[c].pc = "table"
  /\ calls[c].index = Len(calls[c].input.items)
  /\ calls' = [calls EXCEPT ![c].pc = "drawn",
                            ![c].doc.y = @ + (8 * lineHeight(10)) \div 10]
  /\ UNCHANGED <<produits, purchaseOrders, purchaseOrderItems, nextOrderId,
                 nextItemId, files, now, unlinkedPaths, outside, response>>

NextTable ==
  \/ \E n \in 1..MaxRows : createFirstOrder(n)
  \/ \E c \in {1}, orderId \in {1}, actor \in StepActors :
       beginResolveOrderFilePath(c, orderId, actor)
  \/ \E c \in Slots : beginItemsTable(c)
  \/ \E c \in Slots : drawNextItem(c)
  \/ \E c \in Slots : endItemsTable(c)

SpecTable == Init /\ [][NextTable]_vars

-----------------------------------------------------------------------------
(* Properties of the item table *)

\* C21: while and after the item table of a retrieval is drawn, the rows drawn
\* are the first line items of the order in ascending item id, each once (row
\* k shows the quantity and the unit price of the stored item with k - 1
\* stored items of smaller id, and at the end there is one row per stored
\* item); no row ends below the bottom limit; page 1 begins its table with a
\* header row and every later page begins with the decorative overlay, then a
\* header row, then rows; and drawing a row starts a new page exactly when
\* the row would not fit above the limit.
C21_TablePaginates ==
  /\ [](\A c \in Slots :
          calls[c].pc \in {"table", "drawn"} =>
            LET pages == calls[c].doc.pages
                stored == {i \in purchaseOrderItems : i.purchaseOrderId = calls[c].orderId}
                rowsOf(p) == SelectSeq(pages[p], LAMBDA e : e.kind = "row")
                before(p) == SumOf([q \in 1..(p - 1) |-> [n |-> Len(rowsOf(q))]], "n")
            IN /\ SumOf([q \in 1..Len(pages) |-> [n |-> Len(rowsOf(q))]], "n")
                    = calls[c].index
               /\ calls[c].pc = "drawn" => calls[c].index = Cardinality(stored)
               /\ \A p \in 1..Len(pages) :
                    /\ \A k \in 1..Len(rowsOf(p)) :
                         /\ rowsOf(p)[k].index = before(p) + k - 1
                         /\ rowsOf(p)[k].y + rowHeight <= bottomLimit
                         /\ \E item \in stored :
                              /\ Cardinality({j \in stored : j.id < item.id})
                                   = before(p) + k - 1
                              /\ rowsOf(p)[k].texts.quantity = DigitsOf(item.quantity)
                              /\ rowsOf(p)[k].texts.unitPrice = toFixed2(item.unitPriceHt)
                    /\ LET first == IF p = 1 THEN 1 ELSE 2
                       IN /\ Len(pages[p]) >= first
                          /\ pages[p][first].kind = "headerRow"
                          /\ p > 1 => pages[p][1].kind = "decorations"
                          /\ \A e \in (first + 1)..Len(pages[p]) : pages[p][e].kind = "row"
                          /\ p > 1 => Len(rowsOf(p)) >= 1)
  /\ [][\A c \in Slots :
          (calls[c].pc = "table" /\ calls'[c].pc = "table") =>
            /\ calls'[c].index = calls[c].index + 1
            /\ Len(calls'[c].doc.pages) =
                 Len(calls[c].doc.pages)
                   + (IF calls[c].doc.y + rowHeight > bottomLimit THEN 1 ELSE 0)]_vars

\* C21 witness: the table of an order has been drawn to its end over three
\* pages, thirteen rows and more of them on the second
C21_Witness ==
  \E c \in Slots :
    /\ calls[c].pc = "drawn"
    /\ Len(calls[c].doc.pages) = 3
    /\ Len(calls[c].doc.pages[2]) > 2 + 13
    /\ calls[c].index = Cardinality(purchaseOrderItems)

-----------------------------------------------------------------------------
(* Properties of failures and of requests that overlap *)

\* C22: when the stream of the PDF fails during createOrder, the call is
\* answered 500, and the header, with its final number and file name, and the
\* line items its totals are the sums of are persisted and stay as they are:
\* the step changes neither table; and a listOrders answer to the manager of the
\* restaurant shows every persisted order of the restaurant, that one included.
C22_PdfFailureKeepsOrder ==
  [][/\ \A c \in Slots :
          (calls[c].op = "createOrder" /\ calls[c].pc \in {"openStream", "writing"}
             /\ calls'[c].pc = "idle" /\ response'.op = "createOrder"
             /\ response'.status # 200) =>
            /\ response'.status = 500
            /\ UNCHANGED <<purchaseOrders, purchaseOrderItems>>
            /\ \E o \in purchaseOrders' :
                 /\ o.id = (IF calls[c].pc = "writing" THEN calls[c].orderId
                             ELSE calls[c].order.id)
                 /\ o.number = buildOrderNumber(o.id, o.createdAt)
                 /\ o.bonFileName = orderFileNameOf(o.number)
                 /\ LET lines == SortById({i \in purchaseOrderItems' :
                                             i.purchaseOrderId = o.id})
                    IN /\ Len(lines) >= 1
                       /\ SumOf(lines, "quantity") = o.totalItems
                       /\ SumOf(lines, "lineTotal") = o.totalAmount
     /\ (response'.op = "listOrders" /\ response'.status = 200
           /\ \E actor \in StepActors : listOrders(actor)) =>
          \A o \in purchaseOrders :
            o.restaurantId = 1 =>
              \E k \in 1..Len(response'.value) :
                /\ response'.value[k].id = o.id
                /\ response'.value[k].number = o.number]_vars

\* C22 witness: createOrder has just been answered 500 for a failed stream,
\* and its order is persisted with its final number and its line item
C22_Witness ==
  /\ response.op = "createOrder"
  /\ response.status = 500
  /\ response.message = "write stream error"
  /\ \A c \in Slots : calls[c] = Idle
  /\ \E o \in purchaseOrders :
       /\ o.number = buildOrderNumber(o.id, o.createdAt)
       /\ \E i \in purchaseOrderItems : i.purchaseOrderId = o.id

-----------------------------------------------------------------------------
(* Deletion against a concurrent retrieval *)

\* C23: once deleteOrder has removed the PDF file of an order and deleted the
\* order, and every request in flight has finished, no file exists at the path
\* of that order, also when a retrieval of the order ran beside the deletion
C23_NoFileAfterDelete ==
  (\A c \in Slots : calls[c] = Idle) =>
    \A p \in unlinkedPaths :
      (\A o \in purchaseOrders : join(ordersDir, o.bonFileName) # p) =>
        p \notin DOMAIN files

\* C23: all requests have finished, the order is deleted and its file was
\* removed, and the retrieval that ran beside the deletion has answered 200
\* with the path of a file that exists again
C23_Witness ==
  /\ \A c \in Slots : calls[c] = Idle
  /\ purchaseOrders = {}
  /\ response.op = "resolveOrderFilePath" /\ response.status = 200
  /\ response.value \in unlinkedPaths
  /\ response.value \in DOMAIN files

-----------------------------------------------------------------------------
(* Order creations in flight together *)

\* createOrder calls with valid inputs that run side by side, each from its
\* header insert to the end of its PDF stream, under a running clock
NextCreates ==
  \/ \E c \in Slots, request \in StepRequests :
       beginCreateOrder(c, request.actor, request.payload)
  \/ \E c \in Slots : insertHeader(c)
  \/ \E c \in Slots : updateHeader(c)
  \/ \E c \in Slots : createItems(c)
  \/ \E c \in Slots : createWriteStream(c)
  \/ \E c \in Slots : streamFinish(c)
  \/ Tick

SpecCreates == InitCalendar /\ [][NextCreates]_vars

\* C24: createOrder requests with valid inputs that run concurrently all
\* complete successfully, and the orders they produce have distinct ids and
\* distinct numbers, also when two insert their header at the same millisecond
C24_ConcurrentCreatesSucceed ==
  /\ response.op = "createOrder" => response.status = 200
  /\ \A o1, o2 \in purchaseOrders :
       o1 # o2 => o1.id # o2.id /\ o1.number # o2.number

\* C24: a createOrder call with valid input has ended with the failure of its
\* header insert while the header another call inserted at the same
\* millisecond still carries its temporary number
C24_Witness ==
  /\ response.op = "createOrder" /\ response.status = 500
  /\ \E c \in Slots :
       /\ calls[c].op = "createOrder" /\ calls[c].pc = "updateHeader"
       /\ \E o \in purchaseOrders :
            /\ o.id = calls[c].order.id
            /\ o.number = T(<<"P","O","-","T","M","P","-">>) \o dateNowText(now)

-----------------------------------------------------------------------------
(* Two deletions of one order *)

\* C25: when deleteOrder requests for the same existing order run
\* concurrently, one reports success and every other one ends with the
\* not-found outcome "Order not found"
C25_SecondDeleteNotFound ==
  response.op = "deleteOrder" =>
    \/ response.status = 200
    \/ response.status = 404 /\ response.message = "Order not found"

\* C25: a deleteOrder call that had read the order has ended with a server
\* error after another deleteOrder call for the same order deleted the row
C25_Witness ==
  /\ response.op = "deleteOrder" /\ response.status = 500
  /\ purchaseOrders = {}
  /\ \E c \in Slots :
       /\ calls[c].op = "deleteOrder" /\ calls[c].pc = "unlink"
       /\ calls[c].orderId = 1

-----------------------------------------------------------------------------
(* Forbidden requests *)

\* C26: an order request that ends in forbidden has no side effect.  A
\* createOrder, resolveOrderFilePath or deleteOrder answered with 403 writes
\* no table, writes no file and removes no file; and a retrieval or deletion
\* by an actor who is neither ADMIN nor MANAGER, or by a non-ADMIN on an order
\* of another restaurant, is answered with 403, so that the PDF is written
\* only after the role check and the restaurant check have passed.
C26_ForbiddenHasNoSideEffect ==
  [][LET untouched == UNCHANGED <<produits, purchaseOrders, purchaseOrderItems,
                                  nextOrderId, nextItemId, files, unlinkedPaths>>
         denied(orderId, actor) ==
           \/ actor.role \notin {"ADMIN", "MANAGER"}
           \/ /\ actor.role # "ADMIN"
              /\ \E o \in purchaseOrders :
                   o.id = orderId /\ actor.restaurantId # <<o.restaurantId>>
     IN /\ (response'.op \in {"createOrder", "resolveOrderFilePath", "deleteOrder"}
             /\ response'.status = 403) => untouched
        /\ response'.op = "resolveOrderFilePath" =>
             \A orderId \in OrderIdInputs, actor \in Actors :
               (denied(orderId, actor) /\ resolveOrderFilePath(orderId, actor))
                 => response'.status = 403 /\ untouched
        /\ response'.op = "deleteOrder" =>
             \A orderId \in OrderIdInputs, actor \in Actors :
               (denied(orderId, actor) /\ deleteOrder(orderId, actor))
                 => response'.status = 403 /\ untouched
        /\ response'.op = "createOrder" =>
             \A request \in CreateOrderRequests :
               (request.actor.role \notin {"ADMIN", "MANAGER"}
                  /\ createOrder(request.actor, request.payload))
                 => response'.status = 403 /\ untouched]_vars

\* C26: a deleteOrder by the manager of another restaurant has been answered
\* with 403 while the order and its PDF file are there
C26_Witness ==
  /\ response.op = "deleteOrder" /\ response.status = 403
  /\ response.message = "Order does not belong to your restaurant"
  /\ \E o \in purchaseOrders : join(ordersDir, o.bonFileName) \in DOMAIN files

-----------------------------------------------------------------------------
(* The restaurant of an order *)

\* C27: createOrder answers every actor that has no restaurant, an ADMIN
\* included, with a client error and persists nothing; and every persisted
\* order carries the restaurantId of the actor that created it and the address
\* of that restaurant.
C27_OrderCarriesActorRestaurant ==
  /\ [](\A o \in purchaseOrders :
         \E actor \in Actors :
           /\ actor.id = o.createdByUserId
           /\ actor.restaurantId = <<o.restaurantId>>
           /\ o.deliveryAddress = Restaurant[o.restaurantId].address)
  /\ [][response'.op = "createOrder" =>
          \A request \in CreateOrderRequests :
            ((request.actor.restaurantId = None \/ request.actor.restaurantId = <<0>>)
               /\ createOrder(request.actor, request.payload)) =>
              /\ response'.status \in 400..499
              /\ UNCHANGED <<purchaseOrders, purchaseOrderItems, nextOrderId,
                             nextItemId, files>>]_vars

\* C27: with the order of the manager of restaurant 2 persisted under
\* restaurant 2, a createOrder of an actor without restaurant has been refused
C27_Witness ==
  /\ response.op = "createOrder" /\ response.status = 400
  /\ response.message = "User must be assigned to a restaurant"
  /\ \E o \in purchaseOrders : o.createdByUserId = 4 /\ o.restaurantId = 2

-----------------------------------------------------------------------------
(* AuthService and UsersService: accounts, approval, restaurants and roles *)

\* The accounts the model lets register create
MaxRegistrations == 1

\* The variables the auth and user services leave alone
notUsers == <<orderVars, asyncStorage, sessionStorage, window, sessionResponse>>

UserAnswer(op, status, message, userId) ==
  [op |-> op, status |-> status, message |-> message, userId |-> userId]

\* Addresses of the requests: of an employee that exists from the start, of the
\* accounts register may create, and of nobody
EmailInputs == {<<"e", i>> : i \in 0..(MaxRegistrations + 1)}

PasswordInputs == {"pa", "pb"}

\* Restaurant ids of the requests: two that exist and one that does not
RestaurantIdInputs == {1, 2, 9}

\* User ids of the requests: the administrator, the employee without
\* restaurant, the accounts register may create, and an id nobody has
UserIdInputs ==
  {1} \cup (Len(InitialUsers)..(Len(InitialUsers) + MaxRegistrations + 1))

\* bcrypt.hash(password, 10)
bcryptHash(password) == <<"bcrypt", password>>

\* bcrypt.compare(password, passwordHash)
bcryptCompare(password, passwordHash) == passwordHash = bcryptHash(password)

\* prisma.user.findUnique({ where: { email } }): the ids found
findByEmail(email) == {id \in DOMAIN users : users[id].email = email}

\* prisma.user.findUnique({ where: { id } }): the ids found
findById(id) == {u \in DOMAIN users : u = id}

\* A variant that stores every new account as approved
createEmployeeApproved(params) ==
  [email |-> params.email,
   passwordHash |-> params.passwordHash,
   role |-> "EMPLOYEE",
   restaurantId |-> Some(params.restaurantId),
   isApproved |-> TRUE]

\* The row UsersService.createEmployee inserts; params.isApproved is None when
\* the caller leaves it out
createEmployee(params) ==
  [email |-> params.email,
   passwordHash |-> params.passwordHash,
   role |-> "EMPLOYEE",
   restaurantId |-> Some(params.restaurantId),
   isApproved |-> IF params.isApproved = None THEN TRUE ELSE params.isApproved[1]]

register(registerDto) ==
  /\ Len(users) < Len(InitialUsers) + MaxRegistrations
  /\ IF findByEmail(registerDto.email) # {}
       THEN /\ userResponse' = UserAnswer("register", 409, "Email already in use", 0)
            /\ users' = users
     ELSE IF registerDto.restaurantId \notin DOMAIN Restaurant
       THEN /\ userResponse' = UserAnswer("register", 404, "Restaurant not found", 0)
            /\ users' = users
     ELSE /\ users' = Append(users,
                createEmployee([email |-> registerDto.email,
                                passwordHash |-> bcryptHash(registerDto.password),
                                restaurantId |-> registerDto.restaurantId,
                                isApproved |-> Some(FALSE)]))
          /\ userResponse' = UserAnswer("register", 201,
               "Account created. Waiting manager approval before first login.",
               Len(users) + 1)
  /\ UNCHANGED notUsers

login(loginDto) ==
  /\ userResponse' =
       IF findByEmail(loginDto.email) = {}
         THEN UserAnswer("login", 401, "Invalid credentials", 0)
       ELSE LET id == CHOOSE u \in findByEmail(loginDto.email) : TRUE IN
         IF ~ bcryptCompare(loginDto.password, users[id].passwordHash)
           THEN UserAnswer("login", 401, "Invalid credentials", id)
         ELSE IF ~ users[id].isApproved
           THEN UserAnswer("login", 401, "Account pending manager approval", id)
         ELSE IF findById(id) = {}
           THEN UserAnswer("login", 401, "Invalid credentials", id)
         ELSE UserAnswer("login", 200, "", id)
  /\ UNCHANGED <<users, notUsers>>

validateUserById(userId) ==
  /\ userResponse' =
       IF findById(userId) = {}
         THEN UserAnswer("validateUserById", 401, "Invalid token", userId)
       ELSE IF ~ users[userId].isApproved
         THEN UserAnswer("validateUserById", 401, "Account pending manager approval",
                         userId)
       ELSE UserAnswer("validateUserById", 200, "", userId)
  /\ UNCHANGED <<users, notUsers>>

\* The actor of a request of user id: the user the token was validated for
ActorOf(id) ==
  [actorId |-> id, actorRole |-> users[id].role,
   actorRestaurantId |-> users[id].restaurantId]

\* The users that hold a valid token
ActorIds == {id \in DOMAIN users : users[id].isApproved}

\* The exception ensureRoleScope throws, or None
ensureRoleScope(actor) ==
  IF actor.actorRole = "ADMIN" THEN None
  ELSE IF actor.actorRole # "MANAGER"
    THEN Rejection(400, "Only ADMIN and MANAGER are allowed")
  ELSE IF actor.actorRestaurantId = None \/ actor.actorRestaurantId = <<0>>
    THEN Rejection(400, "Manager must be assigned to a restaurant")
  ELSE None

\* The exception approveEmployeeAccount throws, or None
approveEmployeeAccountRejection(userId, actor) ==
  IF ensureRoleScope(actor) # None THEN ensureRoleScope(actor)
  ELSE IF findById(userId) = {} THEN Rejection(404, "User not found")
  ELSE IF users[userId].role # "EMPLOYEE"
    THEN Rejection(400, "Only EMPLOYEE accounts can be approved")
  ELSE IF actor.actorRole = "MANAGER"
          /\ users[userId].restaurantId # actor.actorRestaurantId
    THEN Rejection(400, "Manager can only approve users in own restaurant")
  ELSE None

approveEmployeeAccount(userId, actor) ==
  /\ LET rejection == approveEmployeeAccountRejection(userId, actor) IN
     IF rejection # None
       THEN /\ userResponse' = UserAnswer("approveEmployeeAccount", rejection[1].status,
                                          rejection[1].message, userId)
            /\ users' = users
     ELSE /\ users' = IF users[userId].isApproved THEN users
                      ELSE [users EXCEPT ![userId].isApproved = TRUE]
          /\ userResponse' = UserAnswer("approveEmployeeAccount", 200, "", userId)
  /\ UNCHANGED notUsers

\* The exception assignUserRestaurant throws, or None
assignUserRestaurantRejection(userId, restaurantId) ==
  IF restaurantId \notin DOMAIN Restaurant THEN Rejection(404, "Restaurant not found")
  ELSE IF findById(userId) = {} THEN Rejection(404, "User not found")
  ELSE IF users[userId].role = "ADMIN"
    THEN Rejection(400, "Cannot assign restaurant to ADMIN via this endpoint")
  ELSE IF users[userId].restaurantId # None /\ users[userId].restaurantId # <<0>>
    THEN Rejection(400, "User is already assigned to a restaurant")
  ELSE None

assignUserRestaurant(userId, restaurantId) ==
  /\ LET rejection == assignUserRestaurantRejection(userId, restaurantId) IN
     IF rejection # None
       THEN /\ userResponse' = UserAnswer("assignUserRestaurant", rejection[1].status,
                                          rejection[1].message, userId)
            /\ users' = users
     ELSE /\ users' = [users EXCEPT ![userId].restaurantId = Some(restaurantId)]
          /\ userResponse' = UserAnswer("assignUserRestaurant", 200, "", userId)
  /\ UNCHANGED notUsers

\* Bodies of PATCH /users/:id/manager-role; restaurantId is None when undefined
ManagerRoleParams ==
  [isManager : BOOLEAN,
   restaurantId : {None} \cup {Some(r) : r \in RestaurantIdInputs},
   actorId : {1, Len(InitialUsers)}]

\* params.restaurantId ?? user.restaurantId
nextRestaurantIdOf(user, params) ==
  IF params.restaurantId # None THEN params.restaurantId ELSE user.restaurantId

\* A variant without the check that a manager has a restaurant
updateManagerRoleRejectionAnyManager(userId, params) ==
  IF findById(userId) = {} THEN Rejection(404, "User not found")
  ELSE IF users[userId].role = "ADMIN" THEN Rejection(400, "Cannot change ADMIN role here")
  ELSE IF params.actorId = userId
    THEN Rejection(400, "Admin cannot edit own role in this endpoint")
  ELSE LET nextRestaurantId == nextRestaurantIdOf(users[userId], params) IN
    IF nextRestaurantId # None /\ nextRestaurantId # <<0>>
            /\ nextRestaurantId[1] \notin DOMAIN Restaurant
      THEN Rejection(404, "Restaurant not found")
    ELSE None

\* The exception updateManagerRole throws, or None
updateManagerRoleRejection(userId, params) ==
  IF findById(userId) = {} THEN Rejection(404, "User not found")
  ELSE IF users[userId].role = "ADMIN" THEN Rejection(400, "Cannot change ADMIN role here")
  ELSE IF params.actorId = userId
    THEN Rejection(400, "Admin cannot edit own role in this endpoint")
  ELSE LET nextRestaurantId == nextRestaurantIdOf(users[userId], params) IN
    IF params.isManager /\ (nextRestaurantId = None \/ nextRestaurantId = <<0>>)
      THEN Rejection(400, "Manager must be assigned to a restaurant")
    ELSE IF nextRestaurantId # None /\ nextRestaurantId # <<0>>
            /\ nextRestaurantId[1] \notin DOMAIN Restaurant
      THEN Rejection(404, "Restaurant not found")
    ELSE None

updateManagerRole(userId, params) ==
  /\ LET rejection == updateManagerRoleRejection(userId, params) IN
     IF rejection # None
       THEN /\ userResponse' = UserAnswer("updateManagerRole", rejection[1].status,
                                          rejection[1].message, userId)
            /\ users' = users
     ELSE /\ users' =
               [users EXCEPT
                  ![userId].role = IF params.isManager THEN "MANAGER" ELSE "EMPLOYEE",
                  ![userId].restaurantId =
                    IF params.restaurantId # None /\ params.restaurantId # <<0>>
                      THEN params.restaurantId ELSE @]
          /\ userResponse' = UserAnswer("updateManagerRole", 200, "", userId)
  /\ UNCHANGED notUsers

RegisterDtos ==
  [email : {<<"e", i>> : i \in 0..MaxRegistrations}, password : {"pb"},
   restaurantId : {1, 9}]

LoginDtos == [email : EmailInputs, password : PasswordInputs]

NextUsers ==
  \/ \E registerDto \in RegisterDtos : register(registerDto)
  \/ \E loginDto \in LoginDtos : login(loginDto)
  \/ \E userId \in UserIdInputs : validateUserById(userId)
  \/ \E userId \in UserIdInputs, a \in ActorIds : approveEmployeeAccount(userId, ActorOf(a))
  \/ \E userId \in UserIdInputs, restaurantId \in RestaurantIdInputs :
       assignUserRestaurant(userId, restaurantId)
  \/ \E userId \in UserIdInputs, params \in ManagerRoleParams :
       updateManagerRole(userId, params)

SpecUsers == Init /\ [][NextUsers]_vars

-----------------------------------------------------------------------------
(* Properties of accounts *)

\* C28: an account created by register cannot authenticate until it has been
\* approved.  register stores the account unapproved; an account becomes
\* approved only in a step where approveEmployeeAccount succeeds for it; while
\* it is unapproved every login with its correct credentials and every token
\* validation for it is answered 401; approveEmployeeAccount by a MANAGER
\* succeeds only for an EMPLOYEE of the manager's own restaurant; and no step
\* makes an approved account unapproved.
C28_UnapprovedCannotAuthenticate ==
  [][/\ \A u \in DOMAIN users' : u \notin DOMAIN users => ~ users'[u].isApproved
     /\ \A u \in DOMAIN users :
          (~ users[u].isApproved /\ users'[u].isApproved) =>
            userResponse' = UserAnswer("approveEmployeeAccount", 200, "", u)
     /\ userResponse'.op = "login" =>
          \A loginDto \in LoginDtos :
            (/\ login(loginDto)
             /\ \E u \in DOMAIN users :
                  /\ users[u].email = loginDto.email
                  /\ bcryptCompare(loginDto.password, users[u].passwordHash)
                  /\ ~ users[u].isApproved) =>
              userResponse'.status = 401
     /\ userResponse'.op = "validateUserById" =>
          \A userId \in DOMAIN users :
            (validateUserById(userId) /\ ~ users[userId].isApproved) =>
              userResponse'.status = 401
     /\ userResponse'.op = "approveEmployeeAccount" =>
          \A userId \in UserIdInputs, a \in ActorIds :
            (/\ users[a].role = "MANAGER"
             /\ approveEmployeeAccount(userId, ActorOf(a))
             /\ userResponse'.status = 200) =>
              /\ userId \in DOMAIN users
              /\ users[userId].role = "EMPLOYEE"
              /\ users[userId].restaurantId # None
              /\ users[userId].restaurantId = users[a].restaurantId
     /\ \A u \in DOMAIN users : users[u].isApproved => users'[u].isApproved]_vars

\* C28: the account register created is still unapproved, and a login with
\* its password has just been answered 401
C28_Witness ==
  /\ Len(users) > Len(InitialUsers)
  /\ ~ users[Len(users)].isApproved
  /\ userResponse = UserAnswer("login", 401, "Account pending manager approval",
                               Len(users))
  /\ bcryptCompare("pb", users[Len(users)].passwordHash)

\* C29: after any sequence of user-management operations every MANAGER, and
\* so every user updateManagerRole has made a MANAGER, has a restaurant;
\* assignUserRestaurant neither clears nor replaces a restaurant a user has;
\* the role of an ADMIN never changes; and updateManagerRole by an actor on
\* their own account is refused and changes nothing.
C29_ManagersHaveRestaurant ==
  /\ [](\A u \in DOMAIN users :
         users[u].role = "MANAGER" =>
           users[u].restaurantId # None /\ users[u].restaurantId[1] \in DOMAIN Restaurant)
  /\ [][/\ userResponse'.op = "assignUserRestaurant" =>
             \A u \in DOMAIN users :
               users[u].restaurantId # None =>
                 users'[u].restaurantId = users[u].restaurantId
        /\ \A u \in DOMAIN users :
             users[u].role = "ADMIN" => users'[u].role = "ADMIN"
        /\ userResponse'.op = "updateManagerRole" =>
             \A userId \in UserIdInputs, params \in ManagerRoleParams :
               (params.actorId = userId /\ updateManagerRole(userId, params)) =>
                 userResponse'.status \in 400..499 /\ users' = users]_vars

\* C29: updateManagerRole has just made a MANAGER of the employee that had no
\* restaurant at the start, with the restaurant the request named
C29_Witness ==
  /\ userResponse = UserAnswer("updateManagerRole", 200, "", Len(InitialUsers))
  /\ users[Len(InitialUsers)].role = "MANAGER"
  /\ InitialUsers[Len(InitialUsers)].restaurantId = None
  /\ users[Len(InitialUsers)].restaurantId # None

-----------------------------------------------------------------------------
(* The client's session store: AsyncStorage and the browser's sessionStorage *)

\* The variables the session store functions leave alone
notSession == <<orderVars, users, userResponse, window>>

\* The access tokens the model lets each user obtain
MaxSessions == 4

\* AuthResponse objects: the answers to the logins of the users there are at
\* the start
Sessions ==
  {[accessToken |-> <<"jwt", u, n>>, user |-> [id |-> u]] :
     u \in 1..Len(InitialUsers), n \in 1..MaxSessions}

\* JSON.stringify(session)
JSONstringify(session) == <<"{", session.accessToken, session.user.id, "}">>

\* JSON.parse(text) as AuthResponse
JSONparse(text) == [accessToken |-> text[2], user |-> [id |-> text[3]]]

\* storage.getItem(key): None for null
getItem(storage, key) == IF key \in DOMAIN storage THEN Some(storage[key]) ELSE None

\* storage after setItem(key, value)
setItem(storage, key, value) == (key :> value) @@ storage

\* storage after removeItem(key)
removeItem(storage, key) == [k \in DOMAIN storage \ {key} |-> storage[k]]

\* readWebSessionStorage(): None for null
readWebSessionStorage ==
  IF window = "undefined" THEN None ELSE getItem(sessionStorage, "SESSION_KEY")

\* A variant that removes nothing
writeWebSessionStorageKeeping(value, thrown) ==
  IF window = "undefined" THEN sessionStorage
  ELSE IF value = None THEN sessionStorage
  ELSE IF thrown THEN sessionStorage
  ELSE setItem(sessionStorage, "SESSION_KEY", value[1])

\* sessionStorage after writeWebSessionStorage(value), value None for null;
\* thrown: setItem threw, which the function ignores
writeWebSessionStorage(value, thrown) ==
  IF window = "undefined" THEN sessionStorage
  ELSE IF value = None THEN removeItem(sessionStorage, "SESSION_KEY")
  ELSE IF thrown THEN sessionStorage
  ELSE setItem(sessionStorage, "SESSION_KEY", value[1])

SessionResult(op, session, rememberMe) ==
  [op |-> op, session |-> session, rememberMe |-> rememberMe]

loadStoredSession ==
  LET rememberPreference == getItem(asyncStorage, "REMEMBER_ME_KEY")
      rememberMe == rememberPreference # Some("0")
  IN /\ IF ~ rememberMe
          THEN /\ asyncStorage' = removeItem(asyncStorage, "SESSION_KEY")
               /\ LET transientSession == readWebSessionStorage IN
                  sessionResponse' =
                    IF transientSession = None
                      THEN SessionResult("loadStoredSession", None, rememberMe)
                      ELSE SessionResult("loadStoredSession",
                                         Some(JSONparse(transientSession[1])), rememberMe)
          ELSE /\ asyncStorage' = asyncStorage
               /\ LET rawSession == getItem(asyncStorage, "SESSION_KEY") IN
                  sessionResponse' =
                    IF rawSession = None
                      THEN SessionResult("loadStoredSession", None, rememberMe)
                      ELSE SessionResult("loadStoredSession",
                                         Some(JSONparse(rawSession[1])), rememberMe)
     /\ UNCHANGED <<sessionStorage, notSession>>

persistSession(session, rememberMe) ==
  /\ IF rememberMe
       THEN /\ sessionStorage' = writeWebSessionStorage(None, FALSE)
            /\ asyncStorage' =
                 setItem(setItem(asyncStorage, "REMEMBER_ME_KEY", "1"),
                         "SESSION_KEY", JSONstringify(session))
       ELSE /\ \E thrown \in BOOLEAN :
                 sessionStorage' =
                   writeWebSessionStorage(Some(JSONstringify(session)), thrown)
            /\ asyncStorage' =
                 removeItem(setItem(asyncStorage, "REMEMBER_ME_KEY", "0"), "SESSION_KEY")
  /\ sessionResponse' = SessionResult("persistSession", None, rememberMe)
  /\ UNCHANGED notSession

clearSession ==
  /\ sessionStorage' = writeWebSessionStorage(None, FALSE)
  /\ asyncStorage' = removeItem(asyncStorage, "SESSION_KEY")
  /\ sessionResponse' = SessionResult("clearSession", None, sessionResponse.rememberMe)
  /\ UNCHANGED notSession

\* The client on a device (no window) or in a browser, with nothing stored
InitSession ==
  /\ produits = InitialProduits
  /\ purchaseOrders = {}
  /\ purchaseOrderItems = {}
  /\ nextOrderId = 1
  /\ nextItemId = 1
  /\ files = [f \in {} |-> {}]
  /\ now = StartTime
  /\ response = Answer("none", 0, "", None)
  /\ calls = [c \in Slots |-> Idle]
  /\ unlinkedPaths = {}
  /\ users = InitialUsers
  /\ userResponse = UserAnswer("none", 0, "", 0)
  /\ asyncStorage = [k \in {} |-> ""]
  /\ sessionStorage = [k \in {} |-> ""]
  /\ window \in {"undefined", "defined"}
  /\ sessionResponse = SessionResult("none", None, TRUE)

NextSession ==
  \/ \E session \in Sessions, rememberMe \in BOOLEAN : persistSession(session, rememberMe)
  \/ loadStoredSession
  \/ clearSession

SpecSession == InitSession /\ [][NextSession]_vars

\* Whether storage holds a session
holdsSession(storage) == "SESSION_KEY" \in DOMAIN storage

\* C30: the session is never in both stores.  Once persistSession(session,
\* rememberMe) has completed: with rememberMe the session is in persistent
\* storage and web session storage holds none; without it persistent storage
\* holds none, and web session storage holds the session when the browser has
\* taken it.  Once clearSession has completed neither store holds a session,
\* and whenever neither holds one loadStoredSession returns no session.
C30_SessionInOneStore ==
  /\ [] ~ (holdsSession(asyncStorage) /\ holdsSession(sessionStorage))
  /\ [][/\ sessionResponse'.op = "persistSession" =>
             \A session \in Sessions, rememberMe \in BOOLEAN :
               persistSession(session, rememberMe) =>
                 IF rememberMe
                   THEN /\ holdsSession(asyncStorage')
                        /\ JSONparse(asyncStorage'["SESSION_KEY"]) = session
                        /\ ~ holdsSession(sessionStorage')
                   ELSE /\ ~ holdsSession(asyncStorage')
                        /\ \/ /\ window = "defined"
                              /\ holdsSession(sessionStorage')
                              /\ JSONparse(sessionStorage'["SESSION_KEY"]) = session
                           \/ sessionStorage' = sessionStorage
        /\ sessionResponse'.op = "clearSession" =>
             ~ holdsSession(asyncStorage') /\ ~ holdsSession(sessionStorage')
        /\ (sessionResponse'.op = "loadStoredSession"
              /\ ~ holdsSession(asyncStorage) /\ ~ holdsSession(sessionStorage)) =>
             sessionResponse'.session = None]_vars

\* C30: in a browser, a session persisted without rememberMe after one
\* persisted with it is in web session storage only, and loadStoredSession
\* has returned it
C30_Witness ==
  /\ window = "defined"
  /\ holdsSession(sessionStorage) /\ ~ holdsSession(asyncStorage)
  /\ sessionResponse.op = "loadStoredSession"
  /\ sessionResponse.session = Some(JSONparse(sessionStorage["SESSION_KEY"]))
  /\ ~ sessionResponse.rememberMe

====
